---- MODULE Spec2Model ----
(***************************************************************************)
(* The shared record store of the job-application tracker (tracker/        *)
(* jobs.json), the producers that load, mutate and save it                  *)
(* (browser-applicator/apply.py), the e-mail reconciliation pass            *)
(* (browser-applicator/agentmail_tracker_sync.py) and the operator-facing   *)
(* endpoints of the UI backend (tracker/app.py).                            *)
(*                                                                         *)
(* Python strings are sequences of one-character strings, so that lower(),  *)
(* strip(), replace(), title(), the `in` operator and the regular           *)
(* expressions of the source are computed the way the source computes them. *)
(* Free text whose inner structure no code reads (the notes of a record)    *)
(* is a sequence of phrases instead of characters.                          *)
(***************************************************************************)
EXTENDS Integers, Sequences, FiniteSets, TLC

----------------------------------------------------------------------------
(* Python str operations *)

UpperLetters ==
    <<"A","B","C","D","E","F","G","H","I","J","K","L","M",
      "N","O","P","Q","R","S","T","U","V","W","X","Y","Z">>

LowerLetters ==
    <<"a","b","c","d","e","f","g","h","i","j","k","l","m",
      "n","o","p","q","r","s","t","u","v","w","x","y","z">>

Range(s) == {s[i] : i \in DOMAIN s}

IsUpper(c) == c \in Range(UpperLetters)

IsLower(c) == c \in Range(LowerLetters)

IsLetter(c) == IsUpper(c) \/ IsLower(c)

Digits == {"0","1","2","3","4","5","6","7","8","9"}

\* \w of the re module
IsWordChar(c) == IsLetter(c) \/ c \in Digits \/ c = "_"

\* \s of the re module, and what str.strip() removes
IsSpace(c) == c \in {" ", "\n", "\t"}

lower_char(c) ==
    IF IsUpper(c)
    THEN LowerLetters[CHOOSE i \in DOMAIN UpperLetters : UpperLetters[i] = c]
    ELSE c

upper_char(c) ==
    IF IsLower(c)
    THEN UpperLetters[CHOOSE i \in DOMAIN LowerLetters : LowerLetters[i] = c]
    ELSE c

\* str.lower()
lower(s) == [i \in 1..Len(s) |-> lower_char(s[i])]

\* str.title(): a letter that follows a non-letter is upper-cased, any other
\* letter is lower-cased
title(s) ==
    [i \in 1..Len(s) |->
        IF ~IsLetter(s[i]) THEN s[i]
        ELSE IF i = 1 \/ ~IsLetter(s[i-1]) THEN upper_char(s[i])
        ELSE lower_char(s[i])]

SetMin(S) == CHOOSE x \in S : \A y \in S : x <= y

SetMax(S) == CHOOSE x \in S : \A y \in S : y <= x

\* str.strip()
strip(s) ==
    LET keep == {i \in 1..Len(s) : ~IsSpace(s[i])}
    IN  IF keep = {} THEN <<>> ELSE SubSeq(s, SetMin(keep), SetMax(keep))

\* s[i:] starts with pat (i is 1-based)
StartsAt(s, i, pat) ==
    /\ i >= 1
    /\ i + Len(pat) - 1 <= Len(s)
    /\ SubSeq(s, i, i + Len(pat) - 1) = pat

\* `needle in hay`
contains(needle, hay) == \E i \in 1..(Len(hay) - Len(needle) + 1) : StartsAt(hay, i, needle)

\* str.replace(old, new), old not empty: leftmost, non-overlapping
RECURSIVE replace(_, _, _)
replace(s, old, new) ==
    IF Len(s) < Len(old) THEN s
    ELSE IF StartsAt(s, 1, old)
         THEN new \o replace(SubSeq(s, Len(old) + 1, Len(s)), old, new)
         ELSE <<s[1]>> \o replace(Tail(s), old, new)

\* s.split(sep)[0], sep one character
split_first(s, sep) ==
    LET at == {i \in 1..Len(s) : s[i] = sep}
    IN  IF at = {} THEN s ELSE SubSeq(s, 1, SetMin(at) - 1)

----------------------------------------------------------------------------
(* JSON null.  A field that holds a Python str modelled as one TLA+ string  *)
(* (an id, a URL, a status) is null as NoneStr; a field modelled as a       *)
(* sequence (a name, a timestamp) is null as NoneSeq.                       *)

NoneStr == "None"

NoneSeq == <<"None">>

----------------------------------------------------------------------------
(* agentmail_tracker_sync.py: classification and extraction *)

\* re.search(prefix (?:the )?([A-Z][^.!?]+?)(?:t1|t2|...), text): the places
\* where group 1 may start for a match that starts at i, in the order the
\* matcher tries them
GroupStarts(text, i, prefix) ==
    IF ~StartsAt(text, i, prefix) THEN <<>>
    ELSE LET j == i + Len(prefix)
         IN  (IF StartsAt(text, j, <<"t","h","e"," ">>) THEN <<j + 4>> ELSE <<>>)
             \o <<j>>

\* the places where the terminator may start for a group that starts at j:
\* [A-Z] at j, then one or more of [^.!?]
GroupEnds(text, j, terms) ==
    IF j > Len(text) \/ ~IsUpper(text[j]) THEN {}
    ELSE {k \in (j + 2)..Len(text) :
             /\ \A m \in (j + 1)..(k - 1) : text[m] \notin {".", "!", "?"}
             /\ \E t \in terms : StartsAt(text, k, t)}

\* group 1 of the leftmost match, the lazy +? taking the nearest terminator
re_search_group(text, prefix, terms) ==
    LET ok(i) == \E n \in DOMAIN GroupStarts(text, i, prefix) :
                     GroupEnds(text, GroupStarts(text, i, prefix)[n], terms) # {}
        hits == {i \in 1..Len(text) : ok(i)}
    IN  IF hits = {} THEN [found |-> FALSE, group |-> <<>>]
        ELSE LET i  == SetMin(hits)
                 gs == GroupStarts(text, i, prefix)
                 n  == SetMin({m \in DOMAIN gs : GroupEnds(text, gs[m], terms) # {}})
                 j  == gs[n]
             IN  [found |-> TRUE,
                  group |-> SubSeq(text, j, SetMin(GroupEnds(text, j, terms)) - 1)]

\* re.sub(r'\s+at\s+\w+.*$', '', role) on a text without line breaks: the
\* text is cut at the first white space that starts " at <word>"
remove_at_company(role) ==
    LET hit(i) == \E a \in (i + 1)..Len(role) :
                      /\ \A m \in i..(a - 1) : IsSpace(role[m])
                      /\ StartsAt(role, a, <<"a","t">>)
                      /\ \E b \in (a + 3)..Len(role) :
                             /\ \A m \in (a + 2)..(b - 1) : IsSpace(role[m])
                             /\ IsWordChar(role[b])
        hits == {i \in 1..Len(role) : hit(i)}
    IN  IF hits = {} THEN role ELSE SubSeq(role, 1, SetMin(hits) - 1)

SenderSuffixes ==
    <<  \* " Hiring Team"
        <<" ","H","i","r","i","n","g"," ","T","e","a","m">>,
        \* " Recruiting Team"
        <<" ","R","e","c","r","u","i","t","i","n","g"," ","T","e","a","m">>,
        \* " Recruiting"
        <<" ","R","e","c","r","u","i","t","i","n","g">>,
        \* "The "
        <<"T","h","e"," ">>,
        \* " Team"
        <<" ","T","e","a","m">> >>

RECURSIVE remove_suffixes(_, _)
remove_suffixes(sender, suffixes) ==
    IF suffixes = <<>> THEN sender
    ELSE remove_suffixes(replace(sender, Head(suffixes), <<>>), Tail(suffixes))

extract_company_from_sender(sender) ==
    strip(remove_suffixes(strip(split_first(sender, "<")), SenderSuffixes))

\* "Product Manager", the fallback of extract_role_from_preview
DefaultRole == <<"P","r","o","d","u","c","t"," ","M","a","n","a","g","e","r">>

extract_role_from_preview(subject, preview) ==
    LET combined == subject \o <<" ">> \o preview
        m1 == re_search_group(combined, <<"f","o","r"," ">>,
                  { <<"r","o","l","e">>, <<"p","o","s","i","t","i","o","n">> })
        m2 == re_search_group(combined,
                  <<"a","p","p","l","i","c","a","t","i","o","n"," ","f","o","r"," ">>,
                  { <<".">>, <<"!">> })
    IN  IF m1.found THEN remove_at_company(strip(m1.group))
        ELSE IF m2.found THEN strip(m2.group)
        ELSE DefaultRole

ConfirmationPhrases ==
    {   \* "thank you for applying"
        <<"t","h","a","n","k"," ","y","o","u"," ","f","o","r"," ","a","p",
          "p","l","y","i","n","g">>,
        \* "thanks for applying"
        <<"t","h","a","n","k","s"," ","f","o","r"," ","a","p","p","l","y",
          "i","n","g">>,
        \* "received your application"
        <<"r","e","c","e","i","v","e","d"," ","y","o","u","r"," ","a","p",
          "p","l","i","c","a","t","i","o","n">>,
        \* "we've received your application"
        <<"w","e","'","v","e"," ","r","e","c","e","i","v","e","d"," ","y",
          "o","u","r"," ","a","p","p","l","i","c","a","t","i","o","n">>,
        \* "application received"
        <<"a","p","p","l","i","c","a","t","i","o","n"," ","r","e","c","e",
          "i","v","e","d">>,
        \* "thank you for your application"
        <<"t","h","a","n","k"," ","y","o","u"," ","f","o","r"," ","y","o",
          "u","r"," ","a","p","p","l","i","c","a","t","i","o","n">>,
        \* "thanks for your application"
        <<"t","h","a","n","k","s"," ","f","o","r"," ","y","o","u","r"," ",
          "a","p","p","l","i","c","a","t","i","o","n">>,
        \* "application has been received"
        <<"a","p","p","l","i","c","a","t","i","o","n"," ","h","a","s"," ",
          "b","e","e","n"," ","r","e","c","e","i","v","e","d">>,
        \* "appreciate your interest"
        <<"a","p","p","r","e","c","i","a","t","e"," ","y","o","u","r"," ",
          "i","n","t","e","r","e","s","t">> }

\* A classifier that took every thread for a confirmation
is_confirmation_email_any(subject, preview) == TRUE

is_confirmation_email(subject, preview) ==
    LET text == lower(subject) \o <<" ">> \o lower(preview)
    IN  \E phrase \in ConfirmationPhrases : contains(phrase, text)

----------------------------------------------------------------------------
(* The mail threads the AgentMail API may list.  A timestamp is the pair of *)
(* its date (the first ten characters) and its time of day.                 *)

Thread1 ==
    [thread_id |-> "th-1",
     \* "Acme Inc Hiring Team <jobs@acme.com>"
     sender |->
        <<"A","c","m","e"," ","I","n","c"," ","H","i","r","i","n","g"," ",
          "T","e","a","m"," ","<","j","o","b","s","@","a","c","m","e",".",
          "c","o","m",">">>,
     \* "Thank you for applying to Acme Inc"
     subject |->
        <<"T","h","a","n","k"," ","y","o","u"," ","f","o","r"," ","a","p",
          "p","l","y","i","n","g"," ","t","o"," ","A","c","m","e"," ","I",
          "n","c">>,
     \* "We have received your application for the Product Manager role."
     preview |->
        <<"W","e"," ","h","a","v","e"," ","r","e","c","e","i","v","e","d",
          " ","y","o","u","r"," ","a","p","p","l","i","c","a","t","i","o",
          "n"," ","f","o","r"," ","t","h","e"," ","P","r","o","d","u","c",
          "t"," ","M","a","n","a","g","e","r"," ","r","o","l","e",".">>,
     timestamp |-> <<"2025-01-14", "T09:30:00Z">>]

Thread2 ==
    [thread_id |-> "th-2",
     \* "acme-inc <jobs@acme.com>"
     sender |->
        <<"a","c","m","e","-","i","n","c"," ","<","j","o","b","s","@","a",
          "c","m","e",".","c","o","m",">">>,
     \* "Application received"
     subject |->
        <<"A","p","p","l","i","c","a","t","i","o","n"," ","r","e","c","e",
          "i","v","e","d">>,
     \* "Thanks for applying for the Senior Product Manager position."
     preview |->
        <<"T","h","a","n","k","s"," ","f","o","r"," ","a","p","p","l","y",
          "i","n","g"," ","f","o","r"," ","t","h","e"," ","S","e","n","i",
          "o","r"," ","P","r","o","d","u","c","t"," ","M","a","n","a","g",
          "e","r"," ","p","o","s","i","t","i","o","n",".">>,
     timestamp |-> <<"2025-01-14", "T11:00:00Z">>]

Thread3 ==
    [thread_id |-> "th-3",
     \* "Acme Inc <news@acme.com>"
     sender |->
        <<"A","c","m","e"," ","I","n","c"," ","<","n","e","w","s","@","a",
          "c","m","e",".","c","o","m",">">>,
     \* "Your weekly digest"
     subject |->
        <<"Y","o","u","r"," ","w","e","e","k","l","y"," ","d","i","g","e",
          "s","t">>,
     \* "New roles this week."
     preview |->
        <<"N","e","w"," ","r","o","l","e","s"," ","t","h","i","s"," ","w",
          "e","e","k",".">>,
     timestamp |-> <<"2025-01-14", "T12:00:00Z">>]

\* The threads in the order GET /threads lists them, the newest first
Feed == <<Thread3, Thread2, Thread1>>

Threads == {Feed[i] : i \in DOMAIN Feed}

\* The confirmation of the application to Globex, from a sender with no
\* display name
ThreadGlobex ==
    [thread_id |-> "th-g",
     \* "hiring@globex.io"
     sender |->
        <<"h","i","r","i","n","g","@","g","l","o","b","e","x",".","i","o">>,
     \* "Thanks for applying to the Senior PM role"
     subject |->
        <<"T","h","a","n","k","s"," ","f","o","r"," ","a","p","p","l","y",
          "i","n","g"," ","t","o"," ","t","h","e"," ","S","e","n","i","o",
          "r"," ","P","M"," ","r","o","l","e">>,
     preview |-> <<>>,
     timestamp |-> <<"2025-01-15", "T09:00:00Z">>]

\* Every thread, the newest first
\* A second confirmation of the application Thread1 confirms, later on the
\* same day
ThreadAgain ==
    [Thread1 EXCEPT !.thread_id = "th-4", !.timestamp = <<"2025-01-14", "T15:00:00Z">>]

FullFeed == <<ThreadGlobex, ThreadAgain>> \o Feed

\* What one iteration of the pass derives from a thread (computed once per
\* thread: the derivation reads nothing but the thread)
Derived ==
    [t \in Threads \cup {ThreadGlobex, ThreadAgain} |->
        [is_confirmation |-> is_confirmation_email(t.subject, t.preview),
         company         |-> extract_company_from_sender(t.sender),
         role            |-> extract_role_from_preview(t.subject, t.preview)]]

----------------------------------------------------------------------------
(* Bounds and inputs *)

\* The number of operations (calls of a store operation, reconciliation
\* passes, endpoint requests) one behaviour starts when the operations run
\* one at a time
MaxOps == 4

\* The same number when the processes run side by side
MaxConcurrentOps == 3

\* The number of operations one behaviour starts while another is running
MaxOverlaps == 1

\* The number of store operations and endpoint requests one behaviour starts
\* around one run of the producer
MaxRunOps == 6

\* The number of runs of the migration and of store operations beside them
\* that one behaviour starts
MaxMigrationOps == 3

\* The number of records of the store the first migration finds
MaxLegacyJobs == 2

\* The operating-system processes that run store operations side by side
Procs == {"p1", "p2"}

\* datetime.now().strftime("%Y-%m-%d"): every behaviour runs within one day
Today == "2025-01-15"

\* What the producers pass for (company, role, job_url).  Application1 and
\* Application2 are one posting seen under two company names.
Application1 ==
    [company |-> <<"a","c","m","e","-","i","n","c">>,
     role    |-> <<"P","r","o","d","u","c","t"," ","M","a","n","a","g","e","r">>,
     job_url |-> "https://x.com/1"]

Application2 ==
    [company |-> <<"A","c","m","e"," ","C","o","r","p">>,
     role    |-> <<"P","r","o","d","u","c","t"," ","M","a","n","a","g","e","r">>,
     job_url |-> "https://x.com/1"]

Application3 ==
    [company |-> <<"a","c","m","e","-","i","n","c">>,
     role    |-> <<"S","e","n","i","o","r"," ","P","r","o","d","u","c","t"," ","M",
                   "a","n","a","g","e","r">>,
     job_url |-> "https://x.com/2"]

Applications == {Application1, Application2, Application3}

\* The application to Globex
ApplicationGlobex ==
    [company |-> <<"G","l","o","b","e","x">>,
     role    |-> <<"P","M">>,
     job_url |-> "https://globex.io/jobs/9"]

\* (current_step, progress) as apply_to_job reports them
ProgressReports == { [current_step |-> "Running browser automation", progress |-> 10] }

\* (cost, input_tokens, output_tokens), the cost in micro-dollars
CostReports == { [cost |-> 4200, input_tokens |-> 1200, output_tokens |-> 300] }

ErrorMessages == {"Agent error"}

\* What apply_to_job reports once agent.run() has returned
ProcessingReport == [current_step |-> "Processing results", progress |-> 90]

----------------------------------------------------------------------------
(* State *)

VARIABLES
    file,       \* tracker/jobs.json
    committed,  \* history: the document the last completed write left in jobs.json
    sync_file,  \* browser-applicator/agentmail_sync_state.json
    inbox,      \* the threads in the AgentMail inbox
    pc,         \* where each process stands in its operation
    op,         \* the operation each process runs
    local,      \* the local variables of that operation
    issued,     \* the task ids create_active_task has handed to its callers
    clock,      \* the wall clock: it ticks whenever an operation starts
    overlaps,   \* the number of operations started while another was running
    prev_pass,  \* history: whether the last operation to start was a reconciliation
                \* pass that ran to its end, and the feed it fetched
    next_uuid,  \* the uuid4() values drawn so far, plus one
    run,        \* where one run of apply.py stands in main and apply_to_job
    backup,     \* tracker/jobs.json.pre-migration
    wait,       \* the local variables of one call of wait_for_confirmation_email
    retval,     \* what the last operation of each process returned to its caller
    pending_jobs_file,  \* pending_jobs.txt
    active_jobs_file,   \* browser-applicator/active_jobs.json
    next_job    \* what the last call of get_next_pending_job returned

vars == <<file, committed, sync_file, inbox, pc, op, local, issued, clock, overlaps, prev_pass, next_uuid, run, backup, wait, retval, pending_jobs_file, active_jobs_file, next_job>>

\* str(uuid.uuid4())
uuid4 == ToString(next_uuid)

\* datetime.now().isoformat() and its variants: the date, then the time
now == <<Today, ToString(clock)>>

\* {} as the value of settings.active_tasks
NoTasks == <<>>

\* What load_tracker returns when it cannot read jobs.json
FreshCollection ==
    [settings |-> [followUpDays |-> 2, active_tasks |-> NoTasks,
                   last_email_sync |-> NoneSeq],
     jobs |-> <<>>]

\* prev_pass when the last operation was no pass, and after a pass on feed
NoPass == [ran |-> FALSE, feed |-> <<>>]

PassOn(feed) == [ran |-> TRUE, feed |-> feed]

\* The local variables of an operation before it sets them
NoLocals ==
    [tracker_data |-> FreshCollection, processed_threads |-> {}, threads |-> <<>>,
     new_threads |-> <<>>, new_jobs_added |-> 0, result |-> NoneStr,
     stamp_data |-> FreshCollection, last_sync |-> NoneSeq,
     \* how the request of fetch_inbox_threads ended
     api |-> NoneStr,
     \* history: the document the operation last read from, or wrote to, jobs.json
     loaded |-> FreshCollection,
     \* history: the feed this pass fetched and prev_pass as the pass found it
     feed |-> <<>>, prev |-> NoPass]

NoOp == [name |-> "none"]

\* A run of apply.py that has not called apply_to_job yet
NoRun == [at |-> "main", task_id |-> NoneStr]

\* No call of wait_for_confirmation_email yet
NoWait ==
    [at |-> "main", company |-> <<>>, timeout_seconds |-> 0, poll_interval |-> 1,
     attempts |-> 0, max_attempts |-> 0, slept |-> 0, api |-> NoneStr,
     \* what the call returns: <<>> for None, <<email>> for an email
     result |-> <<>>]

\* No operation has returned yet
NoReturns == [p \in Procs |-> [value |-> NoneStr, saved |-> NoneStr]]

\* pending_jobs.txt and active_jobs.json before anything has written them
NoPendingFile == [st |-> "absent"]

NoActiveFile == [st |-> "absent"]

\* A file that does not exist
Absent == [st |-> "absent"]

\* A file opened with mode 'w' whose content is not written yet: it is empty
Truncated == [st |-> "partial"]

\* A file that holds the whole JSON document d
Written(d) == [st |-> "ok", data |-> d]

----------------------------------------------------------------------------
(* apply.py: the record store *)

\* job[f] = v
set_field(job, f, v) == [x \in (DOMAIN job) \cup {f} |-> IF x = f THEN v ELSE job[x]]

\* job.get(f, default)
get_field(job, f, default) == IF f \in DOMAIN job THEN job[f] ELSE default

\* A load_tracker whose fallback forgot the default of settings.followUpDays
load_tracker_undefaulted(f) ==
    IF f.st = "ok" THEN f.data
    ELSE [FreshCollection EXCEPT !.settings.followUpDays = 0]

\* load_tracker: a missing file and a JSONDecodeError both give a fresh
\* collection
load_tracker(f) == IF f.st = "ok" THEN f.data ELSE FreshCollection

active_tasks(d) == d.settings.active_tasks

\* d with settings.active_tasks replaced
with_tasks(d, tasks) == [d EXCEPT !.settings.active_tasks = tasks]

\* del tasks[task_id]
del_task(tasks, task_id) == [t \in (DOMAIN tasks) \ {task_id} |-> tasks[t]]

\* tasks[task_id] = task
put_task(tasks, task_id, task) ==
    [t \in (DOMAIN tasks) \cup {task_id} |-> IF t = task_id THEN task ELSE tasks[t]]

new_task(task_id, company, role, job_url, started_at) ==
    [task_id |-> task_id, company |-> company, role |-> role, job_url |-> job_url,
     started_at |-> started_at, status |-> "running", progress |-> 0,
     current_step |-> "Initializing browser", error_message |-> NoneStr,
     cost |-> 0, input_tokens |-> 0, output_tokens |-> 0, updated_at |-> NoneSeq]

\* The mutation of create_active_task
create_active_task_data(d, task_id, a, at) ==
    with_tasks(d, put_task(active_tasks(d), task_id,
                           new_task(task_id, a.company, a.role, a.job_url, at)))

update_task_cost_data(d, task_id, c, at) ==
    with_tasks(d, [active_tasks(d) EXCEPT ![task_id] =
        [@ EXCEPT !.cost = c.cost, !.input_tokens = c.input_tokens,
                  !.output_tokens = c.output_tokens, !.updated_at = at]])

update_task_progress_data(d, task_id, r, at) ==
    with_tasks(d, [active_tasks(d) EXCEPT ![task_id] =
        [@ EXCEPT !.current_step = r.current_step, !.progress = r.progress,
                  !.updated_at = at]])

error_task_data(d, task_id, message, at) ==
    with_tasks(d, [active_tasks(d) EXCEPT ![task_id] =
        [@ EXCEPT !.status = "error", !.error_message = message, !.updated_at = at]])

cancel_task_data(d, task_id, at) ==
    with_tasks(d, [active_tasks(d) EXCEPT ![task_id] =
        [@ EXCEPT !.status = "cancelled", !.error_message = "Task cancelled by user",
                  !.updated_at = at]])

remove_task_data(d, task_id) == with_tasks(d, del_task(active_tasks(d), task_id))

\* existing_urls as a check that skipped the stored records would compute it
existing_urls_skipped(jobs) == {}

\* [job.get("jobUrl", "") for job in jobs]
existing_urls(jobs) == {get_field(jobs[i], "jobUrl", "") : i \in DOMAIN jobs}

\* The notes complete_task writes (agent_result is None)
applied_notes(email_verified) ==
    strip(<<"Applied via browser-applicator on ", Today, ". ">>
          \o (IF email_verified THEN <<"Email verified", " (check mark)">>
                                ELSE <<"Email not yet verified">>)
          \o <<".", "\n", "\n">>)

\* The record complete_task builds
applied_job(id, task_id, a, email_verified, at) ==
    [id |-> id,
     company |-> title(replace(replace(a.company, <<"-">>, <<" ">>), <<"_">>, <<" ">>)),
     role |-> a.role, status |-> "applied", applied_at |-> at, jobUrl |-> a.job_url,
     notes |-> applied_notes(email_verified), email_verified |-> email_verified,
     browser_use_task_id |-> task_id, created_at |-> at, updated_at |-> at]

\* complete_task as it would be with the existing record looked up by the
\* company it stores instead of by the URL
complete_task_data_by_company(d, task_id, a, email_verified, id, at) ==
    LET d1 == IF task_id \in DOMAIN active_tasks(d) THEN remove_task_data(d, task_id)
              ELSE d
        new_job == applied_job(id, task_id, a, email_verified, at)
    IN  IF \E i \in DOMAIN d1.jobs : d1.jobs[i].company = new_job.company THEN d1
        ELSE [d1 EXCEPT !.jobs = <<new_job>> \o @]

\* The mutation of complete_task: the task is removed; a record is inserted
\* at the head of the list unless one with this URL exists
complete_task_data(d, task_id, a, email_verified, id, at) ==
    LET d1 == IF task_id \in DOMAIN active_tasks(d) THEN remove_task_data(d, task_id)
              ELSE d
    IN  IF a.job_url \in existing_urls(d1.jobs) THEN d1
        ELSE [d1 EXCEPT !.jobs = <<applied_job(id, task_id, a, email_verified, at)>> \o @]

----------------------------------------------------------------------------
(* agentmail_tracker_sync.py: the store, the sync state and the upsert *)

load_tracker_jobs(f) == IF f.st = "ok" THEN f.data ELSE FreshCollection

\* load_sync_state as a pass that never read its state file would compute it
load_sync_state_unread(f) == {}

\* load_sync_state: the set of processed thread ids, empty when the file is
\* missing or cannot be parsed
load_sync_state(f) == IF f.st = "ok" THEN f.data.processed_threads ELSE {}

\* timestamp[:10]
date_of(timestamp) == SubSeq(timestamp, 1, 1)

\* job['company'].lower().strip() == company.lower().strip() and the same
\* for the role
same_job(job, company, role) ==
    /\ strip(lower(job.company)) = strip(lower(company))
    /\ strip(lower(job.role)) = strip(lower(role))

\* The update as it would be if it also stamped the record with the time of
\* the confirmation
verified_job_restamped(job, timestamp, at) ==
    [job EXCEPT !.email_verified = TRUE, !.updated_at = at, !.applied_at = timestamp,
                !.notes = strip(@ \o <<"\n", "(check mark) Email confirmation received on ">>
                                  \o date_of(timestamp))]

\* The update of a record that matches a confirmation
verified_job(job, timestamp, at) ==
    LET verification_note ==
            <<"\n", "(check mark) Email confirmation received on ">> \o date_of(timestamp)
        existing_notes == get_field(job, "notes", <<>>)
        updated == set_field(set_field(job, "email_verified", TRUE), "updated_at", at)
    IN  IF contains(verification_note, existing_notes) THEN updated
        ELSE set_field(updated, "notes", strip(existing_notes \o verification_note))

\* The record as it would be if created_at and updated_at took the date of
\* the confirmation, as dateApplied does, instead of its timestamp
auto_added_job_dated(id, company, role, timestamp) ==
    LET date_applied == IF Len(timestamp) = 2 THEN timestamp[1] ELSE Today
    IN  [id |-> id, company |-> company, role |-> role, status |-> "applied",
         applied_at |-> timestamp, jobUrl |-> NoneStr,
         notes |-> <<"Auto-added from AgentMail", " confirmation. ", "Email verified",
                     " on ", date_applied, ".">>,
         email_verified |-> TRUE, browser_use_task_id |-> NoneStr,
         created_at |-> <<date_applied>>, updated_at |-> <<date_applied>>]

\* The record update_or_add_job builds for a confirmation that matches none
auto_added_job(id, company, role, timestamp) ==
    LET date_applied == IF Len(timestamp) = 2 THEN timestamp[1] ELSE Today
    IN  [id |-> id, company |-> company, role |-> role, status |-> "applied",
         applied_at |-> timestamp, jobUrl |-> NoneStr,
         notes |-> <<"Auto-added from AgentMail", " confirmation. ", "Email verified",
                     " on ", date_applied, ".">>,
         email_verified |-> TRUE, browser_use_task_id |-> NoneStr,
         created_at |-> timestamp, updated_at |-> timestamp]

\* job_exists_in_tracker (no caller in the repository): whether a record has
\* the company, compared without case, spaces and hyphens, and a role that,
\* compared the same way, contains the given one or is contained in it
squeezed(s) == replace(replace(lower(s), <<" ">>, <<>>), <<"-">>, <<>>)

job_exists_in_tracker(d, company, role) ==
    \E i \in DOMAIN d.jobs :
        /\ squeezed(d.jobs[i].company) = squeezed(company)
        /\ \/ contains(squeezed(role), squeezed(d.jobs[i].role))
           \/ contains(squeezed(d.jobs[i].role), squeezed(role))

\* update_or_add_job: the first record of the list that matches is updated;
\* with no match a record is inserted at the head of the list
update_or_add_job(d, company, role, timestamp, id, at) ==
    LET hits == {i \in DOMAIN d.jobs : same_job(d.jobs[i], company, role)}
    IN  IF hits # {}
        THEN [result |-> "updated",
              data |-> [d EXCEPT !.jobs[SetMin(hits)] = verified_job(@, timestamp, at)]]
        ELSE [result |-> "added",
              data |-> [d EXCEPT !.jobs =
                            <<auto_added_job(id, company, role, timestamp)>> \o @]]

----------------------------------------------------------------------------
(* Steps.  An operation starts when an idle process calls it: the call      *)
(* loads the store and computes what it will save, which are steps of the   *)
(* process alone.  Every later access to a file is a step of its own.       *)

\* The processes are interchangeable: the first of Procs takes the operation
\* that starts while no other runs, and the others take those that overlap it
FirstProc == "p1"

Idle(p) ==
    /\ pc[p] = "idle"
    /\ p # FirstProc => pc[FirstProc] # "idle"

\* Whether an operation that process p starts now overlaps a running one
Overlapping(p) == \E q \in Procs \ {p} : pc[q] # "idle"

\* The operation starts: the clock ticks
Tick(p) ==
    /\ clock' = clock + 1
    /\ overlaps' = IF Overlapping(p) THEN overlaps + 1 ELSE overlaps
    /\ prev_pass' = NoPass

\* The operation goes on to save_tracker(d)
GoSave(p, call, d) ==
    /\ pc' = [pc EXCEPT ![p] = "save"]
    /\ op' = [op EXCEPT ![p] = call]
    /\ local' = [local EXCEPT ![p] = [NoLocals EXCEPT !.tracker_data = d,
                                                      !.loaded = load_tracker(file)]]

\* The operation returns without saving
Return(p) ==
    /\ pc' = [pc EXCEPT ![p] = "idle"]
    /\ op' = [op EXCEPT ![p] = NoOp]
    /\ local' = [local EXCEPT ![p] = NoLocals]

create_active_task(p, a) ==
    /\ Idle(p)
    /\ Tick(p)
    /\ next_uuid' = next_uuid + 1
    /\ GoSave(p, [name |-> "create_active_task", task_id |-> uuid4, application |-> a],
              create_active_task_data(load_tracker(file), uuid4, a, now'))
    /\ UNCHANGED <<file, committed, sync_file, inbox, issued>>

\* update_task_cost, update_task_progress, error_task, cancel_task and
\* remove_task: a task_id that is not in active_tasks ends the call
TaskCall(p, name, task_id, d) ==
    /\ Idle(p)
    /\ Tick(p)
    /\ IF task_id \in DOMAIN active_tasks(load_tracker(file))
       THEN GoSave(p, [name |-> name, task_id |-> task_id], d)
       ELSE Return(p)
    /\ UNCHANGED <<file, committed, sync_file, inbox, issued, next_uuid>>

update_task_cost(p, task_id, c) ==
    TaskCall(p, "update_task_cost", task_id,
             update_task_cost_data(load_tracker(file), task_id, c, now'))

update_task_progress(p, task_id, r) ==
    TaskCall(p, "update_task_progress", task_id,
             update_task_progress_data(load_tracker(file), task_id, r, now'))

error_task(p, task_id, message) ==
    TaskCall(p, "error_task", task_id,
             error_task_data(load_tracker(file), task_id, message, now'))

cancel_task(p, task_id) ==
    TaskCall(p, "cancel_task", task_id,
             cancel_task_data(load_tracker(file), task_id, now'))

remove_task(p, task_id) ==
    TaskCall(p, "remove_task", task_id, remove_task_data(load_tracker(file), task_id))

complete_task(p, task_id, a, email_verified) ==
    /\ Idle(p)
    /\ Tick(p)
    /\ next_uuid' = IF a.job_url \in existing_urls(load_tracker(file).jobs)
                    THEN next_uuid ELSE next_uuid + 1
    /\ GoSave(p, [name |-> "complete_task", task_id |-> task_id, application |-> a],
              complete_task_data(load_tracker(file), task_id, a, email_verified,
                                 uuid4, now'))
    /\ UNCHANGED <<file, committed, sync_file, inbox, issued>>

\* open(tracker_path, 'w'): the file is truncated
SaveOpen(p) ==
    /\ pc[p] = "save"
    /\ file' = Truncated
    /\ committed' = committed
    /\ pc' = [pc EXCEPT ![p] = "write"]
    /\ UNCHANGED <<sync_file, inbox, op, local, issued, clock, overlaps, prev_pass, next_uuid>>

\* json.dump(tracker_data, f) and the close of the file; create_active_task
\* then returns the task_id to its caller
SaveWrite(p) ==
    /\ pc[p] = "write"
    /\ file' = Written(local[p].tracker_data)
    /\ committed' = local[p].tracker_data
    /\ issued' = IF op[p].name = "create_active_task" THEN issued \cup {op[p].task_id}
                 ELSE issued
    /\ prev_pass' = IF op[p].name = "sync_agentmail_to_tracker"
                    THEN PassOn(local[p].feed) ELSE prev_pass
    /\ Return(p)
    /\ UNCHANGED <<sync_file, inbox, clock, overlaps, next_uuid>>

----------------------------------------------------------------------------
(* tracker/app.py: the endpoints that change the store.  They read the file *)
(* themselves: a missing file answers 404 and a file that cannot be parsed  *)
(* answers 500, in both cases without a write.                              *)

EndpointCall(p, name, task_id, d) ==
    /\ Idle(p)
    /\ Tick(p)
    /\ IF file.st = "ok" /\ task_id \in DOMAIN active_tasks(file.data)
       THEN GoSave(p, [name |-> name, task_id |-> task_id], d)
       ELSE Return(p)
    /\ UNCHANGED <<file, committed, sync_file, inbox, issued, next_uuid>>

api_cancel_task(p, task_id) ==
    EndpointCall(p, "api_cancel_task", task_id,
                 cancel_task_data(load_tracker(file), task_id, now'))

api_remove_task(p, task_id) ==
    EndpointCall(p, "api_remove_task", task_id,
                 remove_task_data(load_tracker(file), task_id))

----------------------------------------------------------------------------
(* agentmail_tracker_sync.py: one reconciliation pass *)

\* GET /threads lists the threads of the inbox, the newest first
listing(threads) == SelectSeq(FullFeed, LAMBDA t : t \in threads)

\* The pass starts: load_sync_state()
sync_load_state(p) ==
    /\ Idle(p)
    /\ Tick(p)
    /\ pc' = [pc EXCEPT ![p] = "sync_load"]
    /\ op' = [op EXCEPT ![p] = [name |-> "sync_agentmail_to_tracker"]]
    /\ local' = [local EXCEPT ![p] =
                    [NoLocals EXCEPT !.processed_threads = load_sync_state(sync_file),
                                     !.prev = prev_pass]]
    /\ UNCHANGED <<file, committed, sync_file, inbox, issued, next_uuid>>

\* load_tracker_jobs() and fetch_inbox_threads().  A failed request gives no
\* threads; a failure to read the API key is a RuntimeError that get_api_key
\* raises outside every try block of the pass.  Mail that has arrived since
\* the last request shows in the listing.
sync_load_tracker(p, api, arrived) ==
    /\ pc[p] = "sync_load"
    /\ IF api = "no_key"
       THEN /\ pc' = [pc EXCEPT ![p] = "raised"]
            /\ local' = [local EXCEPT ![p].api = api]
            /\ UNCHANGED <<inbox, op>>
       ELSE /\ pc' = [pc EXCEPT ![p] = "sync_loop"]
            /\ inbox' = IF api = "ok" THEN inbox \cup arrived ELSE inbox
            /\ local' = [local EXCEPT ![p].tracker_data = load_tracker_jobs(file),
                                      ![p].loaded = load_tracker_jobs(file),
                                      ![p].api = api,
                                      ![p].threads = IF api = "ok" THEN listing(inbox')
                                                     ELSE <<>>,
                                      ![p].feed = IF api = "ok" THEN listing(inbox')
                                                  ELSE <<>>]
            /\ op' = op
    /\ UNCHANGED <<file, committed, sync_file, issued, clock, overlaps, prev_pass, next_uuid>>

\* One iteration of `for thread in threads`
sync_thread(p) ==
    /\ pc[p] = "sync_loop"
    /\ local[p].threads # <<>>
    /\ LET thread == Head(local[p].threads)
           upsert == update_or_add_job(local[p].tracker_data, Derived[thread].company,
                                       Derived[thread].role, thread.timestamp, uuid4, now)
       IN  IF \/ thread.thread_id \in local[p].processed_threads
              \/ ~Derived[thread].is_confirmation
           THEN /\ local' = [local EXCEPT ![p].threads = Tail(@)]
                /\ next_uuid' = next_uuid
           ELSE /\ local' = [local EXCEPT
                       ![p].threads = Tail(@),
                       ![p].tracker_data = upsert.data,
                       ![p].result = upsert.result,
                       ![p].new_jobs_added = @ + 1,
                       ![p].new_threads = Append(@, thread.thread_id)]
                /\ next_uuid' = IF upsert.result = "added" THEN next_uuid + 1
                                ELSE next_uuid
    /\ UNCHANGED <<file, committed, sync_file, inbox, pc, op, issued, clock, overlaps, prev_pass>>

\* The loop is over.  With new threads the pass goes on to save_sync_state
\* and then to save_tracker_jobs; without, it returns.
sync_loop_end(p) ==
    /\ pc[p] = "sync_loop"
    /\ local[p].threads = <<>>
    /\ IF local[p].new_threads # <<>>
       THEN /\ pc' = [pc EXCEPT ![p] = "state_save"]
            /\ local' = [local EXCEPT ![p].processed_threads =
                            @ \cup Range(local[p].new_threads)]
            /\ UNCHANGED <<op, prev_pass>>
       ELSE IF local[p].new_jobs_added > 0
       THEN /\ pc' = [pc EXCEPT ![p] = "save"]
            /\ UNCHANGED <<op, local, prev_pass>>
       ELSE /\ Return(p)
            /\ prev_pass' = PassOn(local[p].feed)
    /\ UNCHANGED <<file, committed, sync_file, inbox, issued, clock, overlaps, next_uuid>>

\* save_sync_state: open(SYNC_STATE_FILE, 'w')
sync_state_open(p) ==
    /\ pc[p] = "state_save"
    /\ sync_file' = Truncated
    /\ local' = [local EXCEPT ![p].last_sync = now]
    /\ pc' = [pc EXCEPT ![p] = "state_write"]
    /\ UNCHANGED <<file, committed, inbox, op, issued, clock, overlaps, prev_pass, next_uuid>>

\* save_sync_state: json.dump and the close of the file
sync_state_write(p) ==
    /\ pc[p] = "state_write"
    /\ sync_file' = Written([processed_threads |-> local[p].processed_threads,
                             last_sync |-> local[p].last_sync])
    /\ pc' = [pc EXCEPT ![p] = "stamp_load"]
    /\ UNCHANGED <<file, committed, inbox, op, local, issued, clock, overlaps, prev_pass, next_uuid>>

\* save_sync_state: load_tracker_jobs() and the new settings.last_email_sync
stamp_load(p) ==
    /\ pc[p] = "stamp_load"
    /\ local' = [local EXCEPT ![p].stamp_data =
                    [load_tracker_jobs(file) EXCEPT
                        !.settings.last_email_sync = local[p].last_sync],
                                      ![p].loaded = load_tracker_jobs(file)]
    /\ pc' = [pc EXCEPT ![p] = "stamp_save"]
    /\ UNCHANGED <<file, committed, sync_file, inbox, op, issued, clock, overlaps, prev_pass, next_uuid>>

\* save_sync_state: save_tracker_jobs opens jobs.json
stamp_open(p) ==
    /\ pc[p] = "stamp_save"
    /\ file' = Truncated
    /\ committed' = committed
    /\ pc' = [pc EXCEPT ![p] = "stamp_write"]
    /\ UNCHANGED <<sync_file, inbox, op, local, issued, clock, overlaps, prev_pass, next_uuid>>

\* save_sync_state: save_tracker_jobs writes; then, new_jobs_added being
\* positive, the pass saves its own tracker_data
stamp_write(p) ==
    /\ pc[p] = "stamp_write"
    /\ file' = Written(local[p].stamp_data)
    /\ committed' = local[p].stamp_data
    /\ pc' = [pc EXCEPT ![p] = IF local[p].new_jobs_added > 0 THEN "save" ELSE "idle"]
    /\ op' = [op EXCEPT ![p] = IF local[p].new_jobs_added > 0 THEN @ ELSE NoOp]
    /\ local' = [local EXCEPT ![p] = IF local[p].new_jobs_added > 0
                                     THEN [@ EXCEPT !.loaded = local[p].stamp_data]
                                     ELSE NoLocals]
    /\ prev_pass' = IF local[p].new_jobs_added > 0 THEN prev_pass
                    ELSE PassOn(local[p].feed)
    /\ UNCHANGED <<sync_file, inbox, issued, clock, overlaps, next_uuid>>

ApiOutcomes == {"ok", "request_failed", "no_key"}

\* An exception leaves the operation of process p: the caller ends the
\* operation (monitor_continuous prints the error and sleeps; run with --once,
\* the interpreter prints the traceback and exits; main of migrate_tracker.py
\* prints how to restore the backup and raises again)
propagate(p) ==
    /\ pc[p] = "raised"
    /\ Return(p)
    /\ UNCHANGED <<file, committed, sync_file, inbox, issued, clock, overlaps, prev_pass, next_uuid>>

----------------------------------------------------------------------------

Init ==
    /\ file = Absent
    /\ committed = FreshCollection
    /\ sync_file = Absent
    /\ inbox = {}
    /\ pc = [p \in Procs |-> "idle"]
    /\ op = [p \in Procs |-> NoOp]
    /\ local = [p \in Procs |-> NoLocals]
    /\ issued = {}
    /\ clock = 0
    /\ overlaps = 0
    /\ prev_pass = NoPass
    /\ next_uuid = 1
    /\ run = NoRun
    /\ backup = Absent
    /\ wait = NoWait
    /\ retval = NoReturns
    /\ pending_jobs_file = NoPendingFile
    /\ active_jobs_file = NoActiveFile
    /\ next_job = <<>>

\* The steps of process p
Step(p) ==
    \/ \E a \in Applications : create_active_task(p, a)
    \/ \E t \in issued, c \in CostReports : update_task_cost(p, t, c)
    \/ \E t \in issued, r \in ProgressReports : update_task_progress(p, t, r)
    \/ \E t \in issued, m \in ErrorMessages : error_task(p, t, m)
    \/ \E t \in issued : cancel_task(p, t)
    \/ \E t \in issued : remove_task(p, t)
    \/ \E t \in issued, a \in Applications, v \in BOOLEAN : complete_task(p, t, a, v)
    \/ \E t \in issued : api_cancel_task(p, t)
    \/ \E t \in issued : api_remove_task(p, t)
    \/ SaveOpen(p)
    \/ SaveWrite(p)
    \/ sync_load_state(p)
    \/ \E api \in ApiOutcomes, arrived \in SUBSET (Threads \ inbox) :
            sync_load_tracker(p, api, arrived)
    \/ sync_thread(p)
    \/ sync_loop_end(p)
    \/ sync_state_open(p)
    \/ sync_state_write(p)
    \/ stamp_load(p)
    \/ stamp_open(p)
    \/ stamp_write(p)
    \/ propagate(p)

\* Whether process p, if idle, may start one more operation side by side
\* with the others
MayStart(p) ==
    pc[p] = "idle" =>
        /\ clock < MaxConcurrentOps
        /\ Overlapping(p) => overlaps < MaxOverlaps

\* Processes run side by side: any process may take its next step
Next == \E p \in Procs : MayStart(p) /\ Step(p) /\ UNCHANGED <<run, backup, wait, retval, pending_jobs_file, active_jobs_file, next_job>>

Spec == Init /\ [][Next]_vars

\* Whether process p, if idle, may start one more operation after the others
MayStartSerial(p) == pc[p] = "idle" => clock < MaxOps

\* One operation at a time: a process steps only while every other is idle
NextSerial ==
    \E p \in Procs :
        /\ \A q \in Procs \ {p} : pc[q] = "idle"
        /\ MayStartSerial(p)
        /\ Step(p)
        /\ UNCHANGED <<run, backup, wait, retval, pending_jobs_file, active_jobs_file, next_job>>

SpecSerial == Init /\ [][NextSerial]_vars

----------------------------------------------------------------------------
(* apply.py: one run of the producer, main and apply_to_job.  Each step is  *)
(* the next statement of the run that touches the store or decides where    *)
(* the run goes; a store operation the run calls is the operation above.    *)

\* The run goes on to position `at`
GoOn(at) == run' = [run EXCEPT !.at = at]

\* apply_to_job: create_active_task(company, role, job_url)
apply_create(p, a) ==
    /\ run.at = "main"
    /\ create_active_task(p, a)
    /\ run' = [at |-> "setup", task_id |-> uuid4, application |-> a]

\* apply_to_job: get_applicant_info, prepare_resume and get_llm; when one of
\* them raises, apply_to_job returns a failure that holds no task_id
apply_setup(p, ok) ==
    /\ run.at = "setup"
    /\ Idle(p)
    /\ GoOn(IF ok THEN "start" ELSE "exit")
    /\ UNCHANGED <<file, committed, sync_file, inbox, pc, op, local, issued, clock,
                   overlaps, prev_pass, next_uuid>>

\* apply_to_job: update_task_progress(task_id, "Running browser automation", 10)
apply_start(p) ==
    /\ run.at = "start"
    /\ \E r \in ProgressReports : update_task_progress(p, run.task_id, r)
    /\ GoOn("agent")

\* apply_to_job: agent.run() returns, and the run reports "Processing
\* results", or it raises, and the run calls error_task and returns a failure
apply_agent(p, returned) ==
    /\ run.at = "agent"
    /\ IF returned
       THEN update_task_progress(p, run.task_id, ProcessingReport) /\ GoOn("cost")
       ELSE (\E m \in ErrorMessages : error_task(p, run.task_id, m)) /\ GoOn("exit")

\* apply_to_job: update_task_cost(task_id, total_cost, ...)
apply_cost(p) ==
    /\ run.at = "cost"
    /\ \E c \in CostReports : update_task_cost(p, run.task_id, c)
    /\ GoOn("result")

\* The (company, role, job_url) main passes to complete_task: the company
\* and the URL of the run, and the role read from the result of the agent
ResultApplications ==
    {a \in Applications : /\ a.company = run.application.company
                          /\ a.job_url = run.application.job_url}

\* apply_to_job parses the result of the agent and returns; main calls
\* complete_task when the result is a success, and nothing otherwise
apply_result(p, success, email_verified) ==
    /\ run.at = "result"
    /\ IF success
       THEN \E a \in ResultApplications :
                complete_task(p, run.task_id, a, email_verified)
       ELSE /\ Idle(p)
            /\ UNCHANGED <<file, committed, sync_file, inbox, pc, op, local, issued,
                           clock, overlaps, prev_pass, next_uuid>>
    /\ GoOn("exit")

\* The steps of process p around one run of the producer: the run itself,
\* the saves of the operations, and the requests of the operator
StepRun(p) ==
    \/ \E a \in Applications : apply_create(p, a)
    \/ \E ok \in BOOLEAN : apply_setup(p, ok)
    \/ apply_start(p)
    \/ \E returned \in BOOLEAN : apply_agent(p, returned)
    \/ apply_cost(p)
    \/ \E success \in BOOLEAN, v \in BOOLEAN : apply_result(p, success, v)
    \/ (\E t \in issued : api_cancel_task(p, t)) /\ run' = run
    \/ (\E t \in issued : api_remove_task(p, t)) /\ run' = run
    \/ SaveOpen(p) /\ run' = run
    \/ SaveWrite(p) /\ run' = run

\* Whether process p, if idle, may start one more operation around the run
MayStartRun(p) == pc[p] = "idle" => clock < MaxRunOps

NextRun ==
    \E p \in Procs :
        /\ \A q \in Procs \ {p} : pc[q] = "idle"
        /\ MayStartRun(p)
        /\ StepRun(p)
        /\ UNCHANGED <<backup, wait, retval, pending_jobs_file, active_jobs_file, next_job>>

SpecRun == Init /\ [][NextRun]_vars

----------------------------------------------------------------------------
(* tracker/migrate_tracker.py.  A record of the store is a function from    *)
(* the names of its fields: a record of the old schema has fewer fields     *)
(* than one of the unified schema.                                          *)

\* The interview statuses of the old schema
LegacyStages == {"recruiter_screen", "hiring_manager", "panel_onsite"}

\* The fields transform_job assigns after interview_stage
NewFields ==
    {"applied_at", "browser_use_task_id", "browser_use_status", "audit_trail",
     "synced", "created_at", "updated_at", "email_verified"}

transform_job(job) ==
    LET staged == IF job.status \in LegacyStages
                  THEN set_field(set_field(job, "interview_stage", job.status),
                                 "status", "interviewing")
                  ELSE set_field(job, "interview_stage", NoneStr)
        date_applied  == get_field(job, "dateApplied", Today)
        last_activity == get_field(job, "lastActivityDate", date_applied)
        notes         == get_field(job, "notes", <<>>)
    IN  [x \in (DOMAIN staged) \cup NewFields |->
            CASE x = "applied_at" -> <<date_applied, "T00:00:00Z">>
              [] x = "browser_use_task_id" -> NoneStr
              [] x = "browser_use_status" -> NoneStr
              [] x = "audit_trail" -> <<>>
              [] x = "synced" -> TRUE
              [] x = "created_at" -> <<date_applied, "T00:00:00Z">>
              [] x = "updated_at" -> <<last_activity, "T00:00:00Z">>
              [] x = "email_verified" ->
                    \/ contains(<<"Auto-added from AgentMail">>, notes)
                    \/ contains(<<"Email verified">>, notes)
              [] OTHER -> staged[x]]

\* A migration that dropped the old date of the last activity of every
\* record once updated_at was derived from it
migrate_data_dropping(d) ==
    [d EXCEPT !.jobs =
        [i \in DOMAIN d.jobs |->
            LET job == transform_job(d.jobs[i])
            IN  [x \in (DOMAIN job) \ {"lastActivityDate"} |-> job[x]]]]

\* The document migrate_data saves for the document it loads (a document
\* without settings.active_tasks is one whose active_tasks is empty)
migrate_data(d) == [d EXCEPT !.jobs = [i \in DOMAIN d.jobs |-> transform_job(d.jobs[i])]]

\* The fields validate_migration requires of the first five records
RequiredFields ==
    {"interview_stage", "applied_at", "browser_use_task_id", "browser_use_status",
     "audit_trail", "synced", "created_at", "updated_at", "email_verified"}

\* validate_migration: "ok", or the ValueError it raises
validate_migration(d, expected_count) ==
    LET interviewing == {i \in DOMAIN d.jobs : d.jobs[i].status = "interviewing"}
    IN  IF Len(d.jobs) # expected_count THEN "Job count mismatch"
        ELSE IF \E i \in DOMAIN d.jobs : i <= 5 /\ ~(RequiredFields \subseteq DOMAIN d.jobs[i])
        THEN "Job missing field"
        ELSE IF /\ interviewing # {}
                /\ d.jobs[SetMin(interviewing)].interview_stage \notin LegacyStages
        THEN "Interviewing job missing valid interview_stage"
        ELSE "ok"

\* Records of the old schema
LegacyJob1 ==
    [id |-> "A1", company |-> "Acme Inc", role |-> "Product Manager",
     status |-> "recruiter_screen", dateApplied |-> "2025-01-10",
     lastActivityDate |-> "2025-01-12", notes |-> <<"Phone screen booked">>]

LegacyJob2 ==
    [id |-> "B2", company |-> "Beta Co", role |-> "Product Manager",
     status |-> "applied", dateApplied |-> "2025-01-11",
     notes |-> <<"Auto-added from AgentMail", " confirmation.">>]

\* A record the tracker page has saved (POST /api/jobs writes the document
\* it is sent) with the status and the stage of the unified schema
LegacyJob3 ==
    [id |-> "C3", company |-> "Gamma Ltd", role |-> "Product Manager",
     status |-> "interviewing", interview_stage |-> "hiring_manager",
     dateApplied |-> "2025-01-09", notes |-> <<"Met the manager">>]

LegacyJobs == {LegacyJob1, LegacyJob2, LegacyJob3}

\* The stores the first migration may find
LegacyStores ==
    {[settings |-> FreshCollection.settings, jobs |-> jobs] :
        jobs \in UNION {[1..n -> LegacyJobs] : n \in 0..MaxLegacyJobs}}

\* main: backup_current_data().  shutil.copy copies the file as it is; a
\* missing file raises FileNotFoundError.
migrate_backup(p) ==
    /\ Idle(p)
    /\ Tick(p)
    /\ op' = [op EXCEPT ![p] = [name |-> "migrate"]]
    /\ local' = [local EXCEPT ![p] = NoLocals]
    /\ IF file.st = "absent"
       THEN pc' = [pc EXCEPT ![p] = "raised"] /\ backup' = backup
       ELSE pc' = [pc EXCEPT ![p] = "migrate_load"] /\ backup' = file
    /\ UNCHANGED <<file, committed, sync_file, inbox, issued, next_uuid>>

\* migrate_data: load_jobs() and the transform of every record.  A file
\* that cannot be parsed raises out of load_jobs.
migrate_load(p) ==
    /\ pc[p] = "migrate_load"
    /\ IF file.st # "ok"
       THEN pc' = [pc EXCEPT ![p] = "raised"] /\ local' = local
       ELSE /\ pc' = [pc EXCEPT ![p] = "migrate_save"]
            /\ local' = [local EXCEPT ![p].loaded = file.data,
                                      ![p].tracker_data = migrate_data(file.data)]
    /\ UNCHANGED <<file, committed, sync_file, inbox, op, issued, clock, overlaps,
                   prev_pass, next_uuid, backup>>

\* migrate_data: open(JOBS_FILE, 'w')
migrate_open(p) ==
    /\ pc[p] = "migrate_save"
    /\ file' = Truncated
    /\ pc' = [pc EXCEPT ![p] = "migrate_write"]
    /\ UNCHANGED <<committed, sync_file, inbox, op, local, issued, clock, overlaps,
                   prev_pass, next_uuid, backup>>

\* migrate_data: json.dump(data, f) and the close of the file
migrate_write(p) ==
    /\ pc[p] = "migrate_write"
    /\ file' = Written(local[p].tracker_data)
    /\ committed' = local[p].tracker_data
    /\ pc' = [pc EXCEPT ![p] = "migrate_validate"]
    /\ UNCHANGED <<sync_file, inbox, op, local, issued, clock, overlaps, prev_pass,
                   next_uuid, backup>>

\* A main that copied the backup over the store when validation failed
migrate_validate_restoring(p) ==
    /\ pc[p] = "migrate_validate"
    /\ IF file.st = "ok"
          /\ validate_migration(file.data, Len(local[p].loaded.jobs)) = "ok"
       THEN Return(p) /\ file' = file
       ELSE pc' = [pc EXCEPT ![p] = "raised"] /\ UNCHANGED <<op, local>> /\ file' = backup
    /\ UNCHANGED <<committed, sync_file, inbox, issued, clock, overlaps,
                   prev_pass, next_uuid, backup>>

\* main: validate_migration(original_count) loads the file again; the
\* except clause prints the restore command and re-raises
migrate_validate(p) ==
    /\ pc[p] = "migrate_validate"
    /\ IF file.st = "ok"
          /\ validate_migration(file.data, Len(local[p].loaded.jobs)) = "ok"
       THEN Return(p)
       ELSE pc' = [pc EXCEPT ![p] = "raised"] /\ UNCHANGED <<op, local>>
    /\ UNCHANGED <<file, committed, sync_file, inbox, issued, clock, overlaps,
                   prev_pass, next_uuid, backup>>

\* The store as the first migration may find it: missing, or written under
\* the old schema
InitMigration ==
    /\ file \in {Absent} \cup {Written(d) : d \in LegacyStores}
    /\ committed = load_tracker(file)
    /\ sync_file = Absent
    /\ inbox = {}
    /\ pc = [p \in Procs |-> "idle"]
    /\ op = [p \in Procs |-> NoOp]
    /\ local = [p \in Procs |-> NoLocals]
    /\ issued = {}
    /\ clock = 0
    /\ overlaps = 0
    /\ prev_pass = NoPass
    /\ next_uuid = 1
    /\ run = NoRun
    /\ backup = Absent
    /\ wait = NoWait
    /\ retval = NoReturns
    /\ pending_jobs_file = NoPendingFile
    /\ active_jobs_file = NoActiveFile
    /\ next_job = <<>>

\* The steps of process p: the operator runs the migration in the first
\* process; producers create tasks beside it
StepMigration(p) ==
    \/ p = FirstProc /\ migrate_backup(p)
    \/ migrate_load(p)
    \/ migrate_open(p)
    \/ migrate_write(p)
    \/ migrate_validate(p)
    \/ propagate(p) /\ backup' = backup
    \/ (\E a \in Applications : create_active_task(p, a)) /\ backup' = backup
    \/ SaveOpen(p) /\ backup' = backup
    \/ SaveWrite(p) /\ backup' = backup

\* Whether process p, if idle, may start one more operation
MayStartMigration(p) ==
    pc[p] = "idle" =>
        /\ clock < MaxMigrationOps
        /\ Overlapping(p) => overlaps < MaxOverlaps

NextMigration == \E p \in Procs : MayStartMigration(p) /\ StepMigration(p) /\ UNCHANGED <<run, wait, retval, pending_jobs_file, active_jobs_file, next_job>>

SpecMigration == InitMigration /\ [][NextMigration]_vars
----------------------------------------------------------------------------
(* browser-applicator/verify_applications.py and the matcher it calls,      *)
(* agentmail_client.verify_email_received.  An ISO timestamp is the record  *)
(* of whether it carries a UTC offset and of its instant; NoStamp is a      *)
(* string datetime.fromisoformat cannot parse (the empty string).           *)

MaxVerifyOps == 2

MaxVerifyJobs == 2

MaxEmails == 2

NoStamp == [parsed |-> FALSE]

Stamp(aware, t) == [parsed |-> TRUE, aware |-> aware, t |-> t]

\* s.split(sep)[1], sep one character that occurs in s
split_second(s, sep) ==
    LET at   == {i \in 1..Len(s) : s[i] = sep}
        rest == SubSeq(s, SetMin(at) + 1, Len(s))
    IN  split_first(rest, sep)

\* The match of verify_email_received: the normalised company name is in
\* the domain of the sender or in the subject
company_in_email(company_lower, email) ==
    LET sender        == lower(email.sender)
        sender_domain == IF "@" \in Range(sender) THEN split_second(sender, "@")
                         ELSE sender
        subject_lower == lower(email.subject)
    IN  \/ contains(company_lower,
                    replace(replace(sender_domain, <<".">>, <<>>), <<"-">>, <<>>))
        \/ contains(company_lower,
                    replace(replace(subject_lower, <<"-">>, <<>>), <<"_">>, <<>>))

\* str.lower() and the three replace() calls on the company name
company_key(company) ==
    replace(replace(replace(lower(company), <<"-">>, <<>>), <<"_">>, <<>>), <<" ">>, <<>>)

\* One iteration of the for loop of verify_email_received: "continue",
\* "True" (return True) or "TypeError" (an aware and a naive datetime
\* compared)
check_email(company_lower, submitted_dt, email) ==
    LET received_dt == email.received_at
    IN  IF ~received_dt.parsed THEN "continue"
        ELSE IF received_dt.aware # submitted_dt.aware THEN "TypeError"
        ELSE IF received_dt.t < submitted_dt.t THEN "continue"
        ELSE IF company_in_email(company_lower, email) THEN "True"
        ELSE "continue"

RECURSIVE check_emails(_, _, _)
check_emails(company_lower, submitted_dt, emails) ==
    IF emails = <<>> THEN "False"
    ELSE LET r == check_email(company_lower, submitted_dt, Head(emails))
         IN  IF r = "continue"
             THEN check_emails(company_lower, submitted_dt, Tail(emails))
             ELSE r

\* verify_email_received: "True", "False", or the TypeError that leaves it.
\* A submitted_at that does not parse becomes datetime.min, a naive datetime.
verify_email_received(company, submitted_at, emails) ==
    LET company_lower == company_key(company)
        submitted_dt == IF submitted_at.parsed THEN submitted_at
                        ELSE Stamp(FALSE, -1)
    IN  check_emails(company_lower, submitted_dt, emails)

\* What the loop of verify_applications finds for record job
verified(job, emails) ==
    verify_email_received(get_field(job, "company", <<>>),
                          get_field(job, "submitted_at", NoStamp), emails)

is_pending(job) == get_field(job, "status", NoneStr) = "pending_verification"

\* The records after the loop: a pending record with an email is updated
\* in place
checked_jobs(jobs, emails) ==
    [i \in DOMAIN jobs |->
        IF is_pending(jobs[i]) /\ verified(jobs[i], emails) = "True"
        THEN set_field(set_field(jobs[i], "status", "applied"), "email_verified", TRUE)
        ELSE jobs[i]]

\* failed_jobs
failed_jobs(jobs, emails) ==
    {jobs[i] : i \in {j \in DOMAIN jobs :
                        is_pending(jobs[j]) /\ verified(jobs[j], emails) = "False"}}

\* [job for job in jobs if job not in failed]
RECURSIVE without(_, _)
without(jobs, failed) ==
    IF jobs = <<>> THEN <<>>
    ELSE IF Head(jobs) \in failed THEN without(Tail(jobs), failed)
    ELSE <<Head(jobs)>> \o without(Tail(jobs), failed)

\* The document verify_applications writes for the document it loaded
verify_data(d, emails) ==
    [d EXCEPT !.jobs = without(checked_jobs(d.jobs, emails), failed_jobs(d.jobs, emails))]

\* Whether the loop of verify_applications is left by a TypeError
verify_raises(d, emails) ==
    \E i \in DOMAIN d.jobs : is_pending(d.jobs[i]) /\ verified(d.jobs[i], emails) = "TypeError"

\* Records of the store: two that wait for their verification, one with
\* and one without a submitted_at, and one that is applied
VJob1 ==
    [id |-> "V1", status |-> "pending_verification", role |-> "Product Manager",
     \* "Acme Inc"
     company |->
        <<"A","c","m","e"," ","I","n","c">>,
     submitted_at |-> Stamp(TRUE, 1)]

VJob2 ==
    [id |-> "V2", status |-> "pending_verification", role |-> "Product Manager",
     \* "Beta Co"
     company |->
        <<"B","e","t","a"," ","C","o">>]

VJob3 ==
    [id |-> "V3", status |-> "applied", role |-> "Product Manager",
     \* "Gamma Ltd"
     company |->
        <<"G","a","m","m","a"," ","L","t","d">>,
     email_verified |-> FALSE]

VerifyJobs == {VJob1, VJob2, VJob3}

VerifyStores ==
    {[settings |-> FreshCollection.settings, jobs |-> jobs] :
        jobs \in UNION {[1..n -> VerifyJobs] : n \in 0..MaxVerifyJobs}}

\* The emails get_recent_emails may return
Email1 ==
    [\* "jobs@acme-inc.com"
     sender |->
        <<"j","o","b","s","@","a","c","m","e","-","i","n","c",".","c","o",
          "m">>,
     \* "Thank you for applying"
     subject |->
        <<"T","h","a","n","k"," ","y","o","u"," ","f","o","r"," ","a","p",
          "p","l","y","i","n","g">>,
     received_at |-> Stamp(TRUE, 2)]

Email2 ==
    [\* "no-reply@mailer.io"
     sender |->
        <<"n","o","-","r","e","p","l","y","@","m","a","i","l","e","r",".",
          "i","o">>,
     \* "Your application to Beta-Co"
     subject |->
        <<"Y","o","u","r"," ","a","p","p","l","i","c","a","t","i","o","n",
          " ","t","o"," ","B","e","t","a","-","C","o">>,
     received_at |-> Stamp(TRUE, 2)]

\* The email of an earlier application, received before VJob1 was submitted
Email3 ==
    [\* "jobs@acme-inc.com"
     sender |->
        <<"j","o","b","s","@","a","c","m","e","-","i","n","c",".","c","o",
          "m">>,
     \* "Thank you for applying"
     subject |->
        <<"T","h","a","n","k"," ","y","o","u"," ","f","o","r"," ","a","p",
          "p","l","y","i","n","g">>,
     received_at |-> Stamp(TRUE, 0)]

Emails == {Email1, Email2, Email3}

Scans == UNION {[1..n -> Emails] : n \in 0..MaxEmails}

\* verify_applications() up to the open of the file for writing: the load,
\* the scan of the inbox (get_recent_emails returns [] when the request
\* fails and raises when the key cannot be read, which verify_applications
\* catches) and the loop over the pending records
verify_applications(p, api, emails) ==
    /\ Idle(p)
    /\ Tick(p)
    /\ op' = [op EXCEPT ![p] = [name |-> "verify_applications"]]
    /\ LET d       == file.data
           scanned == IF api = "ok" THEN emails ELSE <<>>
       IN  IF file.st # "ok"
           THEN pc' = [pc EXCEPT ![p] = "idle"] /\ local' = [local EXCEPT ![p] = NoLocals]
           ELSE IF \A i \in DOMAIN d.jobs : ~is_pending(d.jobs[i])
           THEN /\ pc' = [pc EXCEPT ![p] = "idle"]
                /\ local' = [local EXCEPT ![p] = [NoLocals EXCEPT !.loaded = d]]
           ELSE IF api = "no_key"
           THEN /\ pc' = [pc EXCEPT ![p] = "idle"]
                /\ local' = [local EXCEPT ![p] = [NoLocals EXCEPT !.loaded = d, !.api = api]]
           ELSE IF verify_raises(d, scanned)
           THEN /\ pc' = [pc EXCEPT ![p] = "raised"]
                /\ local' = [local EXCEPT ![p] =
                                [NoLocals EXCEPT !.loaded = d, !.api = api, !.feed = scanned]]
           ELSE /\ pc' = [pc EXCEPT ![p] = "verify_save"]
                /\ local' = [local EXCEPT ![p] =
                                [NoLocals EXCEPT !.loaded = d, !.api = api, !.feed = scanned,
                                                 !.tracker_data = verify_data(d, scanned)]]
    /\ UNCHANGED <<file, committed, sync_file, inbox, issued, next_uuid>>

\* verify_applications: open(tracker_path, 'w')
verify_open(p) ==
    /\ pc[p] = "verify_save"
    /\ file' = Truncated
    /\ pc' = [pc EXCEPT ![p] = "verify_write"]
    /\ UNCHANGED <<committed, sync_file, inbox, op, local, issued, clock, overlaps,
                   prev_pass, next_uuid>>

\* verify_applications: json.dump(tracker_data, f); the function returns
verify_write(p) ==
    /\ pc[p] = "verify_write"
    /\ file' = Written(local[p].tracker_data)
    /\ committed' = local[p].tracker_data
    /\ pc' = [pc EXCEPT ![p] = "idle"]
    /\ UNCHANGED <<sync_file, inbox, op, local, issued, clock, overlaps, prev_pass,
                   next_uuid>>

\* The store as a run of verify_applications may find it
InitVerify ==
    /\ file \in {Absent} \cup {Written(d) : d \in VerifyStores}
    /\ committed = load_tracker(file)
    /\ sync_file = Absent
    /\ inbox = {}
    /\ pc = [p \in Procs |-> "idle"]
    /\ op = [p \in Procs |-> NoOp]
    /\ local = [p \in Procs |-> NoLocals]
    /\ issued = {}
    /\ clock = 0
    /\ overlaps = 0
    /\ prev_pass = NoPass
    /\ next_uuid = 1
    /\ run = NoRun
    /\ backup = Absent
    /\ wait = NoWait
    /\ retval = NoReturns
    /\ pending_jobs_file = NoPendingFile
    /\ active_jobs_file = NoActiveFile
    /\ next_job = <<>>

StepVerify(p) ==
    \/ \E api \in ApiOutcomes, emails \in Scans : verify_applications(p, api, emails)
    \/ verify_open(p)
    \/ verify_write(p)
    \/ propagate(p)

MayStartVerify(p) == pc[p] = "idle" => clock < MaxVerifyOps

\* apply_batch.py runs verify_applications.py once its batch has ended: the
\* runs follow one another
NextVerify ==
    \E p \in Procs :
        /\ \A q \in Procs \ {p} : pc[q] = "idle"
        /\ MayStartVerify(p)
        /\ StepVerify(p)
        /\ UNCHANGED <<run, backup, wait, retval, pending_jobs_file, active_jobs_file, next_job>>

SpecVerify == InitVerify /\ [][NextVerify]_vars
----------------------------------------------------------------------------
(* agentmail_client.wait_for_confirmation_email, which main of apply.py     *)
(* calls with timeout_seconds = 120 and poll_interval = 10 after a          *)
(* submission that looks successful                                         *)

MaxTimeout == 35

Timeouts == {t \in 0..MaxTimeout : t % 5 = 0}

PollIntervals == {10, 15}

\* "Acme Inc", "Beta Co"
WaitCompanies == {VJob1.company, VJob2.company}

ConfirmationKeywords ==
    {<<"t","h","a","n","k"," ","y","o","u">>,
     <<"t","h","a","n","k","s"," ","f","o","r">>,
     <<"a","p","p","l","i","c","a","t","i","o","n">>,
     <<"r","e","c","e","i","v","e","d">>,
     <<"s","u","b","m","i","t","t","e","d">>,
     <<"a","p","p","l","y","i","n","g">>,
     <<"c","o","n","f","i","r","m","a","t","i","o","n">>}

\* is_company_match and is_confirmation
wait_match(company_lower, email) ==
    LET subject_lower == lower(email.subject)
        sender        == lower(email.sender)
    IN  /\ \/ contains(company_lower,
                       replace(replace(subject_lower, <<"-">>, <<>>), <<" ">>, <<>>))
           \/ contains(company_lower,
                       replace(replace(sender, <<"-">>, <<>>), <<".">>, <<>>))
        /\ \E kw \in ConfirmationKeywords : contains(kw, subject_lower)

\* The places in emails of the emails the for loop would return
wait_matches(company, emails) ==
    {i \in DOMAIN emails : wait_match(company_key(company), emails[i])}

\* The call: the statements before the while loop
wait_for_confirmation_email(company, timeout_seconds, poll_interval) ==
    /\ wait.at = "main"
    /\ wait' = [NoWait EXCEPT !.at = "loop", !.company = company,
                              !.timeout_seconds = timeout_seconds,
                              !.poll_interval = poll_interval,
                              !.max_attempts = timeout_seconds \div poll_interval]
    /\ UNCHANGED <<file, committed, sync_file, inbox, pc, op, local, issued, clock,
                   overlaps, prev_pass, next_uuid, run, backup, retval, pending_jobs_file, active_jobs_file, next_job>>

\* A loop that checked the inbox without counting the check
wait_check_uncounted(api, emails) ==
    /\ wait.at = "loop"
    /\ wait.attempts < wait.max_attempts
    /\ LET scanned == IF api = "ok" THEN emails ELSE <<>>
           found   == wait_matches(wait.company, scanned)
       IN  IF api = "no_key"
           THEN wait' = [wait EXCEPT !.at = "raised", !.api = api]
           ELSE IF found # {}
           THEN wait' = [wait EXCEPT !.at = "returned", !.api = api,
                                     !.result = <<scanned[SetMin(found)]>>]
           ELSE wait' = [wait EXCEPT !.api = api]
    /\ UNCHANGED <<file, committed, sync_file, inbox, pc, op, local, issued, clock,
                   overlaps, prev_pass, next_uuid, run, backup, retval, pending_jobs_file, active_jobs_file, next_job>>

\* One iteration of the while loop: the check of the inbox
\* (get_recent_emails returns [] when the request fails or times out, and
\* raises RuntimeError when the key cannot be read), the return of the first
\* email that matches, and the sleep before the next check
wait_check(api, emails) ==
    /\ wait.at = "loop"
    /\ wait.attempts < wait.max_attempts
    /\ LET attempts == wait.attempts + 1
           scanned  == IF api = "ok" THEN emails ELSE <<>>
           found    == wait_matches(wait.company, scanned)
       IN  IF api = "no_key"
           THEN wait' = [wait EXCEPT !.at = "raised", !.attempts = attempts, !.api = api]
           ELSE IF found # {}
           THEN wait' = [wait EXCEPT !.at = "returned", !.attempts = attempts,
                                     !.api = api, !.result = <<scanned[SetMin(found)]>>]
           ELSE wait' = [wait EXCEPT !.attempts = attempts, !.api = api,
                                     !.slept = IF attempts < wait.max_attempts
                                               THEN wait.slept + wait.poll_interval
                                               ELSE wait.slept]
    /\ UNCHANGED <<file, committed, sync_file, inbox, pc, op, local, issued, clock,
                   overlaps, prev_pass, next_uuid, run, backup, retval, pending_jobs_file, active_jobs_file, next_job>>

\* The while condition is false: return None
wait_timeout ==
    /\ wait.at = "loop"
    /\ wait.attempts >= wait.max_attempts
    /\ wait' = [wait EXCEPT !.at = "returned", !.result = <<>>]
    /\ UNCHANGED <<file, committed, sync_file, inbox, pc, op, local, issued, clock,
                   overlaps, prev_pass, next_uuid, run, backup, retval, pending_jobs_file, active_jobs_file, next_job>>

NextWait ==
    \/ \E company \in WaitCompanies, timeout_seconds \in Timeouts,
          poll_interval \in PollIntervals :
            wait_for_confirmation_email(company, timeout_seconds, poll_interval)
    \/ \E api \in ApiOutcomes, emails \in Scans : wait_check(api, emails)
    \/ wait_timeout

\* The call runs on: nothing but the replies of the mail API, which
\* requests.get(timeout=30) bounds, holds a statement of the loop back
SpecWait == Init /\ [][NextWait]_vars /\ WF_vars(NextWait)
----------------------------------------------------------------------------
(* Writes that fail and passes that die.  save_tracker of apply.py catches  *)
(* the IOError of open() and of json.dump and returns False, and no caller  *)
(* reads what it returns; save_tracker_jobs of the pass catches nothing.    *)

MaxFaultyOps == 3

\* What the operation hands back to its caller after save_tracker:
\* create_active_task its task_id, complete_task True, the others nothing
return_value(call) ==
    CASE call.name = "create_active_task" -> call.task_id
      [] call.name = "complete_task" -> "True"
      [] OTHER -> NoneStr

\* The operation of process p ends after save_tracker (or save_tracker_jobs)
\* returned saved
EndSave(p, saved) ==
    /\ issued' = IF op[p].name = "create_active_task" THEN issued \cup {op[p].task_id}
                 ELSE issued
    /\ retval' = [retval EXCEPT ![p] = [value |-> return_value(op[p]), saved |-> saved]]

\* The write fails: an exception leaves save_tracker_jobs and the pass, or
\* save_tracker returns False and the operation goes on to its return
SaveFailed(p) ==
    IF op[p].name = "sync_agentmail_to_tracker"
    THEN /\ pc' = [pc EXCEPT ![p] = "raised"]
         /\ UNCHANGED <<op, local, issued, retval>>
    ELSE /\ Return(p)
         /\ EndSave(p, "False")

\* open(tracker_path, 'w') raises IOError (the file or its directory cannot
\* be written): the file is as it was
save_open_fails(p) ==
    /\ pc[p] = "save"
    /\ SaveFailed(p)
    /\ UNCHANGED <<file, committed, sync_file, inbox, clock, overlaps, prev_pass, next_uuid>>

\* json.dump raises IOError (no space left): the file stays truncated
save_write_fails(p) ==
    /\ pc[p] = "write"
    /\ SaveFailed(p)
    /\ UNCHANGED <<file, committed, sync_file, inbox, clock, overlaps, prev_pass, next_uuid>>

\* The process that runs the pass is killed after save_sync_state has
\* written agentmail_sync_state.json and before save_tracker_jobs has
\* written the records of the pass
crash(p) ==
    /\ op[p].name = "sync_agentmail_to_tracker"
    /\ pc[p] \in {"stamp_load", "stamp_save", "stamp_write", "save", "write"}
    /\ Return(p)
    /\ UNCHANGED <<file, committed, sync_file, inbox, issued, clock, overlaps,
                   prev_pass, next_uuid, retval>>

StepFaulty(p) ==
    \/ (\E a \in Applications : create_active_task(p, a)) /\ retval' = retval
    \/ (\E t \in issued, a \in Applications, v \in BOOLEAN : complete_task(p, t, a, v))
            /\ retval' = retval
    \/ SaveOpen(p) /\ retval' = retval
    \/ SaveWrite(p) /\ retval' = [retval EXCEPT ![p] = [value |-> return_value(op[p]),
                                                         saved |-> "True"]]
    \/ save_open_fails(p)
    \/ save_write_fails(p)
    \/ sync_load_state(p) /\ retval' = retval
    \/ (\E api \in ApiOutcomes, arrived \in SUBSET (Threads \ inbox) :
            sync_load_tracker(p, api, arrived)) /\ retval' = retval
    \/ sync_thread(p) /\ retval' = retval
    \/ sync_loop_end(p) /\ retval' = retval
    \/ sync_state_open(p) /\ retval' = retval
    \/ sync_state_write(p) /\ retval' = retval
    \/ stamp_load(p) /\ retval' = retval
    \/ stamp_open(p) /\ retval' = retval
    \/ stamp_write(p) /\ retval' = retval
    \/ crash(p)
    \/ propagate(p) /\ retval' = retval

MayStartFaulty(p) == pc[p] = "idle" => clock < MaxFaultyOps

NextFaulty ==
    \E p \in Procs :
        /\ \A q \in Procs \ {p} : pc[q] = "idle"
        /\ MayStartFaulty(p)
        /\ StepFaulty(p)
        /\ UNCHANGED <<run, backup, wait, pending_jobs_file, active_jobs_file, next_job>>

SpecFaulty == Init /\ [][NextFaulty]_vars
----------------------------------------------------------------------------
(* The writers of the store one after the other on a store that holds       *)
(* records of the old schema, whose fields only the migration knows         *)

MaxFrameOps == 3

StepFrame(p) ==
    \/ (\E a \in Applications : create_active_task(p, a)) /\ backup' = backup
    \/ (\E t \in issued, c \in CostReports : update_task_cost(p, t, c)) /\ backup' = backup
    \/ (\E t \in issued, r \in ProgressReports : update_task_progress(p, t, r))
            /\ backup' = backup
    \/ (\E t \in issued, m \in ErrorMessages : error_task(p, t, m)) /\ backup' = backup
    \/ (\E t \in issued : cancel_task(p, t)) /\ backup' = backup
    \/ (\E t \in issued : remove_task(p, t)) /\ backup' = backup
    \/ (\E t \in issued, a \in Applications, v \in BOOLEAN : complete_task(p, t, a, v))
            /\ backup' = backup
    \/ (\E t \in issued : api_cancel_task(p, t)) /\ backup' = backup
    \/ (\E t \in issued : api_remove_task(p, t)) /\ backup' = backup
    \/ SaveOpen(p) /\ backup' = backup
    \/ SaveWrite(p) /\ backup' = backup
    \/ migrate_backup(p)
    \/ migrate_load(p)
    \/ migrate_open(p)
    \/ migrate_write(p)
    \/ migrate_validate(p)
    \/ propagate(p) /\ backup' = backup

MayStartFrame(p) == pc[p] = "idle" => clock < MaxFrameOps

NextFrame ==
    \E p \in Procs :
        /\ \A q \in Procs \ {p} : pc[q] = "idle"
        /\ MayStartFrame(p)
        /\ StepFrame(p)
        /\ UNCHANGED <<run, wait, retval, pending_jobs_file, active_jobs_file, next_job>>

SpecFrame == InitMigration /\ [][NextFrame]_vars
----------------------------------------------------------------------------
(* The application to Globex: the producer creates and completes its task,  *)
(* and the passes find the confirmation in the inbox once it has arrived    *)

MaxScenarioOps == 3

StepScenario(p) ==
    \/ create_active_task(p, ApplicationGlobex)
    \/ \E t \in issued, v \in BOOLEAN : complete_task(p, t, ApplicationGlobex, v)
    \/ SaveOpen(p)
    \/ SaveWrite(p)
    \/ sync_load_state(p)
    \/ \E api \in ApiOutcomes, arrived \in SUBSET ({ThreadGlobex} \ inbox) :
            sync_load_tracker(p, api, arrived)
    \/ sync_thread(p)
    \/ sync_loop_end(p)
    \/ sync_state_open(p)
    \/ sync_state_write(p)
    \/ stamp_load(p)
    \/ stamp_open(p)
    \/ stamp_write(p)
    \/ propagate(p)

MayStartScenario(p) == pc[p] = "idle" => clock < MaxScenarioOps

NextScenario ==
    \E p \in Procs :
        /\ \A q \in Procs \ {p} : pc[q] = "idle"
        /\ MayStartScenario(p)
        /\ StepScenario(p)
        /\ UNCHANGED <<run, backup, wait, retval, pending_jobs_file, active_jobs_file, next_job>>

SpecScenario == Init /\ [][NextScenario]_vars
----------------------------------------------------------------------------
(* The life of a record: a producer creates and completes its task, the     *)
(* passes verify the record or add one, and the operator runs the schema    *)
(* migration on the store that results                                      *)

MaxLifecycleOps == 4

StepLifecycle(p) ==
    \/ (\E a \in Applications : create_active_task(p, a)) /\ backup' = backup
    \/ (\E t \in issued, a \in Applications, v \in BOOLEAN : complete_task(p, t, a, v))
            /\ backup' = backup
    \/ SaveOpen(p) /\ backup' = backup
    \/ SaveWrite(p) /\ backup' = backup
    \/ sync_load_state(p) /\ backup' = backup
    \/ (\E api \in ApiOutcomes, arrived \in SUBSET (Threads \ inbox) :
            sync_load_tracker(p, api, arrived)) /\ backup' = backup
    \/ sync_thread(p) /\ backup' = backup
    \/ sync_loop_end(p) /\ backup' = backup
    \/ sync_state_open(p) /\ backup' = backup
    \/ sync_state_write(p) /\ backup' = backup
    \/ stamp_load(p) /\ backup' = backup
    \/ stamp_open(p) /\ backup' = backup
    \/ stamp_write(p) /\ backup' = backup
    \/ migrate_backup(p)
    \/ migrate_load(p)
    \/ migrate_open(p)
    \/ migrate_write(p)
    \/ migrate_validate(p)
    \/ propagate(p) /\ backup' = backup

MayStartLifecycle(p) == pc[p] = "idle" => clock < MaxLifecycleOps

NextLifecycle ==
    \E p \in Procs :
        /\ \A q \in Procs \ {p} : pc[q] = "idle"
        /\ MayStartLifecycle(p)
        /\ StepLifecycle(p)
        /\ UNCHANGED <<run, wait, retval, pending_jobs_file, active_jobs_file, next_job>>

SpecLifecycle == Init /\ [][NextLifecycle]_vars
----------------------------------------------------------------------------
(* Applications whose URL the producer does not know: complete_task is      *)
(* called with job_url None or '' on a store whose records the passes have  *)
(* added from the emails, with jobUrl None                                  *)

MaxNoUrlOps == 3

\* (company, role, job_url) with job_url None
ApplicationNoUrl ==
    [company |-> <<"B","e","t","a","-","c","o">>,
     role    |-> <<"P","r","o","d","u","c","t"," ","M","a","n","a","g","e","r">>,
     job_url |-> NoneStr]

\* (company, role, job_url) with job_url ''
ApplicationEmptyUrl ==
    [company |-> <<"B","e","t","a","-","c","o">>,
     role    |-> <<"P","r","o","d","u","c","t"," ","M","a","n","a","g","e","r">>,
     job_url |-> ""]

ApplicationsNoUrl == {ApplicationNoUrl, ApplicationEmptyUrl}

StepNoUrl(p) ==
    \/ \E a \in ApplicationsNoUrl : create_active_task(p, a)
    \/ \E t \in issued, a \in ApplicationsNoUrl, v \in BOOLEAN : complete_task(p, t, a, v)
    \/ SaveOpen(p)
    \/ SaveWrite(p)
    \/ sync_load_state(p)
    \/ \E api \in ApiOutcomes, arrived \in SUBSET (Threads \ inbox) :
            sync_load_tracker(p, api, arrived)
    \/ sync_thread(p)
    \/ sync_loop_end(p)
    \/ sync_state_open(p)
    \/ sync_state_write(p)
    \/ stamp_load(p)
    \/ stamp_open(p)
    \/ stamp_write(p)
    \/ propagate(p)

MayStartNoUrl(p) == pc[p] = "idle" => clock < MaxNoUrlOps

NextNoUrl ==
    \E p \in Procs :
        /\ \A q \in Procs \ {p} : pc[q] = "idle"
        /\ MayStartNoUrl(p)
        /\ StepNoUrl(p)
        /\ UNCHANGED <<run, backup, wait, retval, pending_jobs_file, active_jobs_file, next_job>>

SpecNoUrl == Init /\ [][NextNoUrl]_vars
----------------------------------------------------------------------------
(* Two confirmations of one application: the passes update the record the   *)
(* producer wrote, or a record that was entered on the tracker page, which  *)
(* has no notes                                                             *)

MaxNotesOps == 4

\* A record entered on the tracker page (POST /api/jobs writes the document
\* it is sent): it has no notes
ManualJob ==
    [id |-> "M1", status |-> "applied", jobUrl |-> "https://x.com/1",
     \* "Acme Inc"
     company |->
        <<"A","c","m","e"," ","I","n","c">>,
     role |-> <<"P","r","o","d","u","c","t"," ","M","a","n","a","g","e","r">>]

InitNotes ==
    /\ file \in {Absent, Written([FreshCollection EXCEPT !.jobs = <<ManualJob>>])}
    /\ committed = load_tracker(file)
    /\ sync_file = Absent
    /\ inbox = {}
    /\ pc = [p \in Procs |-> "idle"]
    /\ op = [p \in Procs |-> NoOp]
    /\ local = [p \in Procs |-> NoLocals]
    /\ issued = {}
    /\ clock = 0
    /\ overlaps = 0
    /\ prev_pass = NoPass
    /\ next_uuid = 1
    /\ run = NoRun
    /\ backup = Absent
    /\ wait = NoWait
    /\ retval = NoReturns
    /\ pending_jobs_file = NoPendingFile
    /\ active_jobs_file = NoActiveFile
    /\ next_job = <<>>

StepNotes(p) ==
    \/ create_active_task(p, Application1)
    \/ \E t \in issued, v \in BOOLEAN : complete_task(p, t, Application1, v)
    \/ SaveOpen(p)
    \/ SaveWrite(p)
    \/ sync_load_state(p)
    \/ \E api \in ApiOutcomes, arrived \in SUBSET ({Thread1, ThreadAgain} \ inbox) :
            sync_load_tracker(p, api, arrived)
    \/ sync_thread(p)
    \/ sync_loop_end(p)
    \/ sync_state_open(p)
    \/ sync_state_write(p)
    \/ stamp_load(p)
    \/ stamp_open(p)
    \/ stamp_write(p)
    \/ propagate(p)

MayStartNotes(p) == pc[p] = "idle" => clock < MaxNotesOps

NextNotes ==
    \E p \in Procs :
        /\ \A q \in Procs \ {p} : pc[q] = "idle"
        /\ MayStartNotes(p)
        /\ StepNotes(p)
        /\ UNCHANGED <<run, backup, wait, retval, pending_jobs_file, active_jobs_file, next_job>>

SpecNotes == InitNotes /\ [][NextNotes]_vars
----------------------------------------------------------------------------
(* tracker/app.py: POST /api/trigger_email_sync.  The server is the first   *)
(* process; the script it runs with subprocess.run, one pass of             *)
(* agentmail_tracker_sync.py --once, is the second                          *)

MaxTriggerOps == 4

Server == FirstProc

Child == CHOOSE q \in Procs : q # Server

\* The request is answered: what the endpoint returns is its status code
Answer(p, code) ==
    /\ Return(p)
    /\ retval' = [retval EXCEPT ![p] = [value |-> code, saved |-> NoneStr]]

\* The settings with email_sync_status 'syncing' and email_sync_started
syncing_data(d, at) ==
    [d EXCEPT !.settings = set_field(set_field(@, "email_sync_status", "syncing"),
                                     "email_sync_started", at)]

\* The settings with the status the return code gives and last_email_sync
synced_data(d, returncode, at) ==
    [d EXCEPT !.settings =
        set_field(set_field(@, "email_sync_status",
                            IF returncode = 0 THEN "complete" ELSE "error"),
                  "last_email_sync", at)]

\* The request arrives: jobs.json is read; a file that is missing or cannot
\* be parsed raises into the last except clause, which answers 500
trigger_email_sync(p) ==
    /\ p = Server
    /\ Idle(p)
    /\ Tick(p)
    /\ IF file.st # "ok"
       THEN Answer(p, "500")
       ELSE /\ pc' = [pc EXCEPT ![p] = "trigger_save"]
            /\ op' = [op EXCEPT ![p] = [name |-> "trigger_email_sync", at |-> clock']]
            /\ local' = [local EXCEPT ![p] =
                            [NoLocals EXCEPT !.loaded = file.data,
                                             !.tracker_data = syncing_data(file.data, now')]]
            /\ retval' = [retval EXCEPT ![p] = [value |-> NoneStr, saved |-> NoneStr]]
    /\ UNCHANGED <<file, committed, sync_file, inbox, issued, next_uuid, run, backup, wait, pending_jobs_file, active_jobs_file, next_job>>

\* open(JOBS_PATH, 'w')
trigger_open(p) ==
    /\ pc[p] = "trigger_save"
    /\ file' = Truncated
    /\ pc' = [pc EXCEPT ![p] = "trigger_write"]
    /\ UNCHANGED <<committed, sync_file, inbox, op, local, issued, clock, overlaps,
                   prev_pass, next_uuid, run, backup, wait, retval, pending_jobs_file, active_jobs_file, next_job>>

\* json.dump(jobs_data, f); subprocess.run then starts the script
trigger_write(p) ==
    /\ pc[p] = "trigger_write"
    /\ file' = Written(local[p].tracker_data)
    /\ committed' = local[p].tracker_data
    /\ pc' = [pc EXCEPT ![p] = "trigger_run"]
    /\ UNCHANGED <<sync_file, inbox, op, local, issued, clock, overlaps,
                   prev_pass, next_uuid, run, backup, wait, retval, pending_jobs_file, active_jobs_file, next_job>>

\* Whether the script of the request of process p has not started yet, and
\* whether it has ended
ScriptToStart(p) == pc[p] = "trigger_run" /\ clock = op[p].at

ScriptEnded(p) == pc[p] = "trigger_run" /\ clock > op[p].at /\ pc[Child] = "idle"

\* subprocess.run returns: the return code is 0 when the pass ran to its
\* end and 1 when an exception left it.  jobs.json is read again.
trigger_update(p) ==
    /\ ScriptEnded(p)
    /\ IF file.st # "ok"
       THEN Answer(p, "500")
       ELSE /\ pc' = [pc EXCEPT ![p] = "trigger_save2"]
            /\ local' = [local EXCEPT ![p].loaded = file.data,
                                      ![p].result = IF prev_pass.ran THEN "200" ELSE "500",
                                      ![p].tracker_data =
                                          synced_data(file.data,
                                                      IF prev_pass.ran THEN 0 ELSE 1, now)]
            /\ UNCHANGED <<op, retval>>
    /\ UNCHANGED <<file, committed, sync_file, inbox, issued, clock, overlaps, prev_pass,
                   next_uuid, run, backup, wait, pending_jobs_file, active_jobs_file, next_job>>

trigger_open2(p) ==
    /\ pc[p] = "trigger_save2"
    /\ file' = Truncated
    /\ pc' = [pc EXCEPT ![p] = "trigger_write2"]
    /\ UNCHANGED <<committed, sync_file, inbox, op, local, issued, clock, overlaps,
                   prev_pass, next_uuid, run, backup, wait, retval, pending_jobs_file, active_jobs_file, next_job>>

\* The status is written and the request is answered: 200, or 500 when the
\* return code was not 0
trigger_write2(p) ==
    /\ pc[p] = "trigger_write2"
    /\ file' = Written(local[p].tracker_data)
    /\ committed' = local[p].tracker_data
    /\ Answer(p, local[p].result)
    /\ UNCHANGED <<sync_file, inbox, issued, clock, overlaps, prev_pass, next_uuid,
                   run, backup, wait, pending_jobs_file, active_jobs_file, next_job>>

\* subprocess.run(..., timeout=60) kills the script where it is and raises
\* TimeoutExpired; the except clause answers 504
trigger_timeout(p) ==
    /\ pc[p] = "trigger_run"
    /\ clock > op[p].at
    /\ pc[Child] # "idle"
    /\ pc' = [q \in Procs |-> "idle"]
    /\ op' = [q \in Procs |-> NoOp]
    /\ local' = [q \in Procs |-> NoLocals]
    /\ retval' = [retval EXCEPT ![p] = [value |-> "504", saved |-> NoneStr]]
    /\ UNCHANGED <<file, committed, sync_file, inbox, issued, clock, overlaps, prev_pass,
                   next_uuid, run, backup, wait, pending_jobs_file, active_jobs_file, next_job>>

\* The steps of the script
StepScript(q) ==
    \/ ScriptToStart(Server) /\ sync_load_state(q)
    \/ \E api \in ApiOutcomes, arrived \in SUBSET (Threads \ inbox) :
            sync_load_tracker(q, api, arrived)
    \/ sync_thread(q)
    \/ sync_loop_end(q)
    \/ sync_state_open(q)
    \/ sync_state_write(q)
    \/ stamp_load(q)
    \/ stamp_open(q)
    \/ stamp_write(q)
    \/ SaveOpen(q)
    \/ SaveWrite(q)
    \/ propagate(q)

MayStartTrigger(p) == pc[p] = "idle" => clock < MaxTriggerOps

InitTrigger ==
    /\ file \in {Absent, Written(FreshCollection)}
    /\ committed = load_tracker(file)
    /\ sync_file = Absent
    /\ inbox = {}
    /\ pc = [p \in Procs |-> "idle"]
    /\ op = [p \in Procs |-> NoOp]
    /\ local = [p \in Procs |-> NoLocals]
    /\ issued = {}
    /\ clock = 0
    /\ overlaps = 0
    /\ prev_pass = NoPass
    /\ next_uuid = 1
    /\ run = NoRun
    /\ backup = Absent
    /\ wait = NoWait
    /\ retval = NoReturns
    /\ pending_jobs_file = NoPendingFile
    /\ active_jobs_file = NoActiveFile
    /\ next_job = <<>>

NextTrigger ==
    \/ MayStartTrigger(Server) /\ trigger_email_sync(Server)
    \/ trigger_open(Server)
    \/ trigger_write(Server)
    \/ trigger_update(Server)
    \/ trigger_open2(Server)
    \/ trigger_write2(Server)
    \/ trigger_timeout(Server)
    \/ StepScript(Child) /\ UNCHANGED <<run, backup, wait, retval, pending_jobs_file, active_jobs_file, next_job>>

SpecTrigger == InitTrigger /\ [][NextTrigger]_vars
----------------------------------------------------------------------------
(* browser-applicator/tracker_manager.py: the list of pending URLs, one per *)
(* line of pending_jobs.txt, and the active jobs of active_jobs.json.  A    *)
(* line is the sequence of its characters, without the newline that ends    *)
(* it.  Each function runs in one step and returns in the next.             *)

MaxPendingOps == 4

\* "http://a.io/1"
Url1 == <<"h","t","t","p",":","/","/","a",".","i","o","/","1">>

\* "http://a.io/12"
Url12 == <<"h","t","t","p",":","/","/","a",".","i","o","/","1","2">>

\* "http://a.io/2"
Url2 == <<"h","t","t","p",":","/","/","a",".","i","o","/","2">>

PendingUrls == {Url1, Url12, Url2}

\* The lines of pending_jobs.txt
PendingLines ==
    <<  \* "# jobs to apply to"
        <<"#"," ","j","o","b","s"," ","t","o"," ","a","p","p","l","y"," ",
          "t","o">>,
        Url1, Url12, Url2 >>

\* What the producer passes to create_active_task and complete_task for a
\* pending URL
PendingApplications ==
    {[company |-> <<"a","c","m","e">>, role |-> <<"P","M">>, job_url |-> u] :
        u \in PendingUrls}

\* TrackerManager.get_pending_jobs: the stripped lines that start with
\* 'http'
get_pending_jobs(f) ==
    IF f.st # "ok" THEN <<>>
    ELSE SelectSeq([i \in DOMAIN f.lines |-> strip(f.lines[i])],
                   LAMBDA line : /\ line # <<>>
                                 /\ ~StartsAt(line, 1, <<"#">>)
                                 /\ StartsAt(line, 1, <<"h","t","t","p">>))

\* TrackerManager.remove_pending_job: the lines written back
remove_pending_job(lines, job_url) ==
    SelectSeq(lines, LAMBDA line : ~contains(job_url, line))

\* TrackerManager._load_active_jobs
load_active_jobs(f) == IF f.st = "ok" THEN f.data ELSE <<>>

\* TrackerManager.add_active_job
add_active_job(active_jobs, job_url, company, at) ==
    set_field(active_jobs, job_url,
              [company |-> company, job_url |-> job_url, task_id |-> NoneStr,
               started_at |-> at, status |-> "running"])

\* TrackerManager.update_active_job (result is None)
update_active_job(active_jobs, job_url, status, at) ==
    IF job_url \in DOMAIN active_jobs
    THEN set_field(active_jobs, job_url,
                   set_field(set_field(active_jobs[job_url], "status", status),
                             "updated_at", at))
    ELSE active_jobs

\* TrackerManager.remove_active_job
remove_active_job(active_jobs, job_url) ==
    [u \in (DOMAIN active_jobs) \ {job_url} |-> active_jobs[u]]

\* TrackerManager.is_job_applied: job.get("url") == job_url
is_job_applied(f, job_url) ==
    /\ f.st = "ok"
    /\ \E i \in DOMAIN f.data.jobs :
            /\ "url" \in DOMAIN f.data.jobs[i]
            /\ f.data.jobs[i]["url"] = job_url

\* get_next_pending_job: <<>> for None
next_pending_job(pending, tracker, active_jobs) ==
    LET free == SelectSeq(pending, LAMBDA job_url :
                    /\ ~is_job_applied(tracker, job_url)
                    /\ job_url \notin DOMAIN active_jobs)
    IN  IF free = <<>> THEN <<>> ELSE <<Head(free)>>

\* The call of a function of tracker_manager.py has run; it returns next
Returning(p, call) ==
    /\ pc' = [pc EXCEPT ![p] = "returning"]
    /\ op' = [op EXCEPT ![p] = call]
    /\ local' = [local EXCEPT ![p] = NoLocals]

get_next_pending_job(p) ==
    /\ Idle(p)
    /\ Tick(p)
    /\ Returning(p, [name |-> "get_next_pending_job"])
    /\ next_job' = next_pending_job(get_pending_jobs(pending_jobs_file), file,
                                    load_active_jobs(active_jobs_file))
    /\ UNCHANGED <<file, committed, sync_file, inbox, issued, next_uuid, run, backup,
                   wait, retval, pending_jobs_file, active_jobs_file>>

\* start_job_application: remove_pending_job opens pending_jobs.txt, which
\* raises FileNotFoundError when the file is missing, and writes it back;
\* add_active_job then writes active_jobs.json
start_job_application(p, job_url, company) ==
    /\ Idle(p)
    /\ Tick(p)
    /\ IF pending_jobs_file.st # "ok"
       THEN /\ pc' = [pc EXCEPT ![p] = "raised"]
            /\ op' = [op EXCEPT ![p] = [name |-> "start_job_application",
                                        job_url |-> job_url]]
            /\ local' = [local EXCEPT ![p] = NoLocals]
            /\ UNCHANGED <<pending_jobs_file, active_jobs_file>>
       ELSE /\ Returning(p, [name |-> "start_job_application", job_url |-> job_url])
            /\ pending_jobs_file' =
                    [st |-> "ok",
                     lines |-> remove_pending_job(pending_jobs_file.lines, job_url)]
            /\ active_jobs_file' =
                    Written(add_active_job(load_active_jobs(active_jobs_file),
                                           job_url, company, now'))
    /\ UNCHANGED <<file, committed, sync_file, inbox, issued, next_uuid, run, backup,
                   wait, retval, next_job>>

\* complete_job_application: update_active_job, and remove_active_job when
\* the application succeeded.  Neither writes for a URL that is not active.
complete_job_application(p, job_url, success) ==
    /\ Idle(p)
    /\ Tick(p)
    /\ Returning(p, [name |-> "complete_job_application", job_url |-> job_url,
                     success |-> success])
    /\ LET active_jobs == load_active_jobs(active_jobs_file)
           updated == update_active_job(active_jobs, job_url,
                                        IF success THEN "completed" ELSE "failed", now')
       IN  active_jobs_file' =
                IF job_url \notin DOMAIN active_jobs THEN active_jobs_file
                ELSE IF success THEN Written(remove_active_job(updated, job_url))
                ELSE Written(updated)
    /\ UNCHANGED <<file, committed, sync_file, inbox, issued, next_uuid, run, backup,
                   wait, retval, pending_jobs_file, next_job>>

\* The function returns to its caller
tm_return(p) ==
    /\ pc[p] = "returning"
    /\ Return(p)
    /\ UNCHANGED <<file, committed, sync_file, inbox, issued, clock, overlaps, prev_pass,
                   next_uuid, run, backup, wait, retval, pending_jobs_file,
                   active_jobs_file, next_job>>

InitPending ==
    /\ file = Absent
    /\ committed = FreshCollection
    /\ sync_file = Absent
    /\ inbox = {}
    /\ pc = [p \in Procs |-> "idle"]
    /\ op = [p \in Procs |-> NoOp]
    /\ local = [p \in Procs |-> NoLocals]
    /\ issued = {}
    /\ clock = 0
    /\ overlaps = 0
    /\ prev_pass = NoPass
    /\ next_uuid = 1
    /\ run = NoRun
    /\ backup = Absent
    /\ wait = NoWait
    /\ retval = NoReturns
    /\ pending_jobs_file \in {NoPendingFile, [st |-> "ok", lines |-> PendingLines]}
    /\ active_jobs_file = NoActiveFile
    /\ next_job = <<>>

StepPending(p) ==
    \/ get_next_pending_job(p)
    \/ \E a \in PendingApplications : start_job_application(p, a.job_url, a.company)
    \/ \E u \in PendingUrls, success \in BOOLEAN : complete_job_application(p, u, success)
    \/ tm_return(p)
    \/ (\E a \in PendingApplications : create_active_task(p, a))
            /\ UNCHANGED <<run, backup, wait, retval, pending_jobs_file, active_jobs_file, next_job>>
    \/ (\E t \in issued, a \in PendingApplications, v \in BOOLEAN : complete_task(p, t, a, v))
            /\ UNCHANGED <<run, backup, wait, retval, pending_jobs_file, active_jobs_file, next_job>>
    \/ SaveOpen(p)
            /\ UNCHANGED <<run, backup, wait, retval, pending_jobs_file, active_jobs_file, next_job>>
    \/ SaveWrite(p)
            /\ UNCHANGED <<run, backup, wait, retval, pending_jobs_file, active_jobs_file, next_job>>
    \/ propagate(p)
            /\ UNCHANGED <<run, backup, wait, retval, pending_jobs_file, active_jobs_file, next_job>>

MayStartPending(p) == pc[p] = "idle" => clock < MaxPendingOps

NextPending ==
    \E p \in Procs :
        /\ \A q \in Procs \ {p} : pc[q] = "idle"
        /\ MayStartPending(p)
        /\ StepPending(p)

SpecPending == InitPending /\ [][NextPending]_vars
----------------------------------------------------------------------------
(* Properties *)

\* The step of process p that loads jobs.json and goes on with what it read
LoadsStore(p) ==
    \/ pc[p] = "idle" /\ pc'[p] = "save"
    \/ pc[p] = "sync_load" /\ pc'[p] = "sync_loop"
    \/ pc[p] = "stamp_load" /\ pc'[p] = "stamp_save"

\* The step of process p that completes a write of jobs.json
CommitsStore(p) == SaveWrite(p) \/ stamp_write(p)

\* The ids of the JobRecords of document d
JobIds(d) == {d.jobs[i].id : i \in DOMAIN d.jobs}

\* C1: when a process completes a save, the store still holds the document
\* that process read (or last wrote itself): no save overwrites a change that
\* another process committed after this process loaded.
C1_NoLostUpdate ==
    [][\A p \in Procs : CommitsStore(p) => committed = local[p].loaded]_vars

\* The document process q is writing to jobs.json
BeingWritten(q) ==
    IF pc[q] = "stamp_write" THEN local[q].stamp_data ELSE local[q].tracker_data

\* C2: what a load returns is a whole document, the last one completely
\* written or the one a process is writing: never the empty collection a
\* truncated file is read as.
C2_SaveAllOrNothing ==
    [][\A p \in Procs : LoadsStore(p) =>
            \/ local'[p].loaded = committed
            \/ \E q \in Procs \ {p} : /\ pc[q] \in {"write", "stamp_write"}
                                      /\ local'[p].loaded = BeingWritten(q)]_vars

\* C3: task operations, reconciliation passes and the cancel/remove
\* endpoints never remove a JobRecord that has been persisted: the ids of the
\* last completely written document stay in every later one.
C3_JobRecordsPersist ==
    [][JobIds(committed) \subseteq JobIds(committed')]_vars

\* The jobUrl values that more than one JobRecord of the document carries
SharedJobUrls(d) ==
    {d.jobs[i].jobUrl : i \in {k \in DOMAIN d.jobs :
        /\ d.jobs[k].jobUrl # NoneStr
        /\ \E j \in DOMAIN d.jobs : j # k /\ d.jobs[j].jobUrl = d.jobs[k].jobUrl}}

\* C4: in every state of the persisted store no two JobRecords have the
\* same non-null jobUrl, whatever the interleaving of complete_task calls and
\* reconciliation passes.
C4_UniqueJobUrl == file.st = "ok" => SharedJobUrls(file.data) = {}

\* C4 happens: the store holds a JobRecord for a URL while another process,
\* which loaded before that record was written, is writing its own record
\* for the same URL
C4_Witness ==
    \E p \in Procs :
        /\ pc[p] = "write"
        /\ op[p].name = "complete_task"
        /\ op[p].application.job_url \notin existing_urls(local[p].loaded.jobs)
        /\ op[p].application.job_url \in existing_urls(committed.jobs)
\* Process p is in a reconciliation pass that has fetched its feed
InPass(p) == op[p].name = "sync_agentmail_to_tracker" /\ pc[p] # "sync_load"

\* Process p is in a pass that follows a pass on the same feed, with no
\* operation started between the two
InSecondPass(p) ==
    InPass(p) /\ local[p].prev.ran /\ local[p].prev.feed = local[p].feed

\* C5: a reconciliation pass that follows a pass on the same mail feed, with
\* no other writer in between, changes neither jobs.json (no record added or
\* modified) nor the sync state file (processed_threads as it was).
C5_SecondPassChangesNothing ==
    [][\A p \in Procs : InSecondPass(p) => file' = file /\ sync_file' = sync_file]_vars

\* C5 happens: the second pass has gone through a feed that holds a
\* confirmation the first pass processed
C5_Witness ==
    \E p \in Procs :
        /\ InSecondPass(p)
        /\ pc[p] = "sync_loop"
        /\ local[p].threads = <<>>
        /\ \E i \in DOMAIN local[p].feed :
                /\ Derived[local[p].feed[i]].is_confirmation
                /\ local[p].feed[i].thread_id \in local[p].processed_threads
\* The step in which process p calls complete_task: it loads the store and
\* computes the document it saves
CompletesTask(p) == pc[p] = "idle" /\ op'[p].name = "complete_task"

\* The records of document `after` that document `before` does not hold: the
\* new ones and the updated ones
ChangedRecords(before, after) ==
    {after.jobs[i] : i \in DOMAIN after.jobs} \ {before.jobs[i] : i \in DOMAIN before.jobs}

\* C6: complete_task removes the task from active_tasks; called for a task
\* that create_active_task left in the store, it changes the jobs list by
\* exactly one new or updated JobRecord; called again for a task already
\* completed, with a job_url the store holds, it leaves the number of
\* JobRecords as it was.
C6_CompleteChangesOneRecord ==
    [][\A p \in Procs : CompletesTask(p) =>
            LET before == local'[p].loaded
                after  == local'[p].tracker_data
                task_id == op'[p].task_id
            IN  /\ task_id \notin DOMAIN active_tasks(after)
                /\ IF task_id \in DOMAIN active_tasks(before)
                   THEN /\ Cardinality(ChangedRecords(before, after)) = 1
                        /\ Len(after.jobs) \in {Len(before.jobs), Len(before.jobs) + 1}
                   ELSE op'[p].application.job_url \in existing_urls(before.jobs)
                            => Len(after.jobs) = Len(before.jobs)]_vars

\* The records of the store that stand for the application of Thread1: the
\* company and the role that its confirmation names
RecordsOfThread1 ==
    {i \in DOMAIN file.data.jobs :
        same_job(file.data.jobs[i], Derived[Thread1].company, Derived[Thread1].role)}

\* C7: once the producer has completed the task of an application and the
\* reconciliation pass has processed the confirmation email of the same
\* application (same company and role), in whichever order, the store holds
\* exactly one JobRecord for that application.
C7_EitherOrderOneRecord ==
    ( /\ \A p \in Procs : pc[p] = "idle"
      /\ file.st = "ok"
      /\ Thread1.thread_id \in load_sync_state(sync_file)
      /\ \E i \in RecordsOfThread1 : file.data.jobs[i].jobUrl = Application1.job_url )
    => Cardinality(RecordsOfThread1) = 1

\* The step in which the pass of process p applies update_or_add_job to the
\* confirmation at the head of its listing
Upserts(p) ==
    /\ pc[p] = "sync_loop"
    /\ local[p].threads # <<>>
    /\ Len(local'[p].new_threads) = Len(local[p].new_threads) + 1

\* Lower case, with spaces, hyphens and underscores stripped
normalized(s) ==
    replace(replace(replace(lower(s), <<" ">>, <<>>), <<"-">>, <<>>), <<"_">>, <<>>)

\* The match of a confirmation (company, role) with a stored record: equal
\* normalized companies and one normalized role containing the other
FuzzyMatch(job, company, role) ==
    /\ normalized(job.company) = normalized(company)
    /\ \/ contains(normalized(role), normalized(job.role))
       \/ contains(normalized(job.role), normalized(role))

\* C8: the upsert of a confirmation (company, role) merges it into a stored
\* record ('updated', no record added) exactly when the normalized companies
\* are equal and one normalized role contains the other, and adds a new
\* record otherwise.
C8_UpsertMatchesNormalized ==
    [][\A p \in Procs : Upserts(p) =>
            LET thread == Head(local[p].threads)
                before == local[p].tracker_data
                after  == local'[p].tracker_data
            IN  IF \E i \in DOMAIN before.jobs :
                       FuzzyMatch(before.jobs[i], Derived[thread].company,
                                  Derived[thread].role)
                THEN /\ local'[p].result = "updated"
                     /\ Len(after.jobs) = Len(before.jobs)
                ELSE /\ local'[p].result = "added"
                     /\ Len(after.jobs) = Len(before.jobs) + 1]_vars

\* C9: when the job_url passed to complete_task is the jobUrl of a record of
\* the store, complete_task adds no JobRecord, whatever company and role it
\* is passed.
C9_UrlMatchAddsNoRecord ==
    [][\A p \in Procs :
            ( /\ CompletesTask(p)
              /\ op'[p].application.job_url \in existing_urls(local'[p].loaded.jobs) )
            => /\ Len(local'[p].tracker_data.jobs) = Len(local'[p].loaded.jobs)
               /\ JobIds(local'[p].tracker_data) = JobIds(local'[p].loaded)]_vars

\* C9 happens: complete_task has been called with the URL of a stored record
\* and with a company that, normalized, is not the stored one
C9_Witness ==
    \E p \in Procs :
        /\ pc[p] = "save"
        /\ op[p].name = "complete_task"
        /\ \E i \in DOMAIN local[p].loaded.jobs :
                /\ local[p].loaded.jobs[i].jobUrl = op[p].application.job_url
                /\ normalized(local[p].loaded.jobs[i].company)
                       # normalized(op[p].application.company)

\* C10: an upsert that matches a stored record (it adds none) returns
\* 'updated' and changes nothing but email_verified, updated_at and notes of
\* one record: all its other fields, all other records and the settings are
\* as they were.
C10_UpdateTouchesThreeFields ==
    [][\A p \in Procs :
            ( /\ Upserts(p)
              /\ Len(local'[p].tracker_data.jobs) = Len(local[p].tracker_data.jobs) )
            => LET before == local[p].tracker_data
                   after  == local'[p].tracker_data
               IN  /\ local'[p].result = "updated"
                   /\ \E i \in DOMAIN before.jobs :
                          after = [before EXCEPT !.jobs[i] =
                                      [@ EXCEPT !.email_verified = TRUE,
                                                !.updated_at = after.jobs[i].updated_at,
                                                !.notes = after.jobs[i].notes]]]_vars

\* C10 happens: the upsert has updated a record that complete_task wrote, in
\* a store that holds another record
C10_Witness ==
    \E p \in Procs :
        /\ pc[p] = "sync_loop"
        /\ local[p].result = "updated"
        /\ Len(local[p].tracker_data.jobs) >= 2
        /\ \E i \in DOMAIN local[p].tracker_data.jobs :
                /\ local[p].tracker_data.jobs[i].jobUrl # NoneStr
                /\ local[p].tracker_data.jobs[i].email_verified
                /\ local[p].tracker_data.jobs[i].updated_at # local[p].tracker_data.jobs[i].created_at

\* C11: the upsert of a confirmation that matches no stored record returns
\* 'added' and inserts exactly one JobRecord: it carries the derived company
\* and role, an id no stored record has, status 'applied' and one timestamp in
\* created_at, updated_at and applied_at; the stored records and the settings
\* are as they were.
C11_NoMatchAddsOneRecord ==
    [][\A p \in Procs :
            ( /\ Upserts(p)
              /\ \A i \in DOMAIN local[p].tracker_data.jobs :
                     ~same_job(local[p].tracker_data.jobs[i],
                               Derived[Head(local[p].threads)].company,
                               Derived[Head(local[p].threads)].role) )
            => LET thread == Head(local[p].threads)
                   before == local[p].tracker_data
                   after  == local'[p].tracker_data
                   new    == Head(after.jobs)
               IN  /\ local'[p].result = "added"
                   /\ Len(after.jobs) = Len(before.jobs) + 1
                   /\ Tail(after.jobs) = before.jobs
                   /\ after.settings = before.settings
                   /\ new.company = Derived[thread].company
                   /\ new.role = Derived[thread].role
                   /\ new.id # NoneStr
                   /\ new.id \notin JobIds(before)
                   /\ new.status = "applied"
                   /\ new.created_at = new.applied_at
                   /\ new.updated_at = new.applied_at]_vars

\* C11 happens: the upsert has added a record to a store that held one of
\* the same company under another role
C11_Witness ==
    \E p \in Procs :
        /\ pc[p] = "sync_loop"
        /\ local[p].result = "added"
        /\ Len(local[p].tracker_data.jobs) >= 2
        /\ local[p].tracker_data.jobs[1].jobUrl = NoneStr
        /\ \E i \in 2..Len(local[p].tracker_data.jobs) :
                /\ local[p].tracker_data.jobs[i].jobUrl # NoneStr
                /\ strip(lower(local[p].tracker_data.jobs[i].company))
                       = strip(lower(local[p].tracker_data.jobs[1].company))

\* C12: when a pass has ended, the id of every thread it fetched is in the
\* processed_threads of the sync state file, whether the thread updated a
\* record, created one or was no confirmation.
C12_EvaluatedThreadsProcessed ==
    prev_pass.ran =>
        \A i \in DOMAIN prev_pass.feed :
            prev_pass.feed[i].thread_id \in load_sync_state(sync_file)

\* The pass of process p has had its request to the mail API fail
ApiFailed(p) ==
    /\ op[p].name = "sync_agentmail_to_tracker"
    /\ local[p].api \in {"request_failed", "no_key"}

\* C13: a pass whose request to the mail API fails (the network, or the
\* retrieval of the credential) raises no exception, has no thread to
\* process, and leaves jobs.json and the sync state file as they were.
C13_ApiFailureEndsNormally ==
    [][\A p \in Procs :
            /\ ApiFailed(p)' =>
                    /\ pc'[p] # "raised"
                    /\ local'[p].threads = <<>>
                    /\ local'[p].new_threads = <<>>
            /\ (ApiFailed(p) \/ ApiFailed(p)') =>
                    /\ file' = file
                    /\ sync_file' = sync_file]_vars

\* The task operations that take the id of a task
TaskOps ==
    {"update_task_progress", "update_task_cost", "error_task", "cancel_task",
     "remove_task", "complete_task"}

\* C14: a task operation called with a task_id that is not in active_tasks
\* changes nothing: what it goes on to save, if it saves, is the document it
\* loaded, active_tasks and jobs as they were.
C14_AbsentTaskNoOp ==
    [][\A p \in Procs :
            ( /\ pc[p] = "idle"
              /\ pc'[p] = "save"
              /\ op'[p].name \in TaskOps
              /\ op'[p].task_id \notin DOMAIN active_tasks(local'[p].loaded) )
            => /\ active_tasks(local'[p].tracker_data) = active_tasks(local'[p].loaded)
               /\ local'[p].tracker_data.jobs = local'[p].loaded.jobs]_vars

\* The status of task t in document d, NoneStr when d holds no such task
status_of(d, t) ==
    IF t \in DOMAIN active_tasks(d) THEN active_tasks(d)[t].status ELSE NoneStr

\* C15: the save of error_task leaves the task with status 'error' and the
\* save of a cancellation leaves it with status 'cancelled' and the message
\* of the cancellation by the user; a task that the store holds with status
\* 'error' or 'cancelled' is still there, with that status, after the save of
\* an update_task_progress, an update_task_cost or a complete_task.
C15_EndedTaskStaysUntilRemoved ==
    [][\A p \in Procs : SaveWrite(p) =>
            /\ op[p].name = "error_task"
                    => status_of(committed', op[p].task_id) = "error"
            /\ op[p].name \in {"cancel_task", "api_cancel_task"}
                    => /\ status_of(committed', op[p].task_id) = "cancelled"
                       /\ active_tasks(committed')[op[p].task_id].error_message
                              = "Task cancelled by user"
            /\ op[p].name \in {"update_task_progress", "update_task_cost", "complete_task"}
                    => \A t \in DOMAIN active_tasks(committed) :
                           status_of(committed, t) \in {"error", "cancelled"}
                               => status_of(committed', t) = status_of(committed, t)]_vars

\* C16: when the run of the producer has come to its end, the task it
\* created is not in the store with status 'running': it has been deleted by
\* complete_task or marked 'error' or 'cancelled'.
C16_FinishedRunLeavesNoRunningTask ==
    ( /\ run.at = "exit"
      /\ \A p \in Procs : pc[p] = "idle"
      /\ file.st = "ok" )
    => status_of(file.data, run.task_id) # "running"

\* C17: once the store holds a task with status 'cancelled', the producer
\* does not call complete_task for it, and no save adds a JobRecord that
\* carries its id.
C17_CancelledTaskNotCompleted ==
    [][\A t \in issued :
            status_of(committed, t) = "cancelled"
            => /\ \A p \in Procs : ~(CompletesTask(p) /\ op'[p].task_id = t)
               /\ \A i \in DOMAIN committed'.jobs :
                      committed'.jobs[i].browser_use_task_id = t
                          => \E j \in DOMAIN committed.jobs :
                                 committed.jobs[j] = committed'.jobs[i]]_vars

\* The step in which the migration of process p loads the store and
\* transforms it
MigrationLoads(p) == pc[p] = "migrate_load" /\ pc'[p] = "migrate_save"

\* Every field value of record `old` is in record `new`: under the same
\* field, or, for the status, under interview_stage
Preserved(old, new) ==
    \A f \in DOMAIN old :
        /\ f \in DOMAIN new
        /\ \/ new[f] = old[f]
           \/ f = "status" /\ new["interview_stage"] = old[f]

\* C18: the migration of a store of N records gives a store of N records in
\* which every record with status 'interviewing' has an interview_stage that
\* is not null, whether it had that status before or not, and in which every
\* field value of every record is still in the record.
C18_MigrationKeepsRecords ==
    [][\A p \in Procs : MigrationLoads(p) =>
            LET before == local'[p].loaded
                after  == local'[p].tracker_data
            IN  /\ Len(after.jobs) = Len(before.jobs)
                /\ \A i \in DOMAIN after.jobs :
                       /\ after.jobs[i].status = "interviewing"
                              => /\ "interview_stage" \in DOMAIN after.jobs[i]
                                 /\ after.jobs[i].interview_stage # NoneStr
                       /\ Preserved(before.jobs[i], after.jobs[i])]_vars

\* C19: the migration of the store a migration writes gives that store
\* again, status and interview_stage of every record included, and passes
\* the validation.
C19_MigrationIdempotent ==
    [][\A p \in Procs : MigrationLoads(p) =>
            LET once  == local'[p].tracker_data
                twice == migrate_data(once)
            IN  /\ twice = once
                /\ validate_migration(twice, Len(once.jobs)) = "ok"]_vars

\* C20: from the load of the migration to the end of its run, the backup
\* file holds the document the migration loaded and transformed.
C20_BackupIsWhatWasMigrated ==
    \A p \in Procs :
        pc[p] \in {"migrate_save", "migrate_write", "migrate_validate"}
            => backup = Written(local[p].loaded)

\* The step in which the migration run of process p finds its validation
\* failed: the file cannot be parsed or validate_migration raises
ValidationFails(p) ==
    /\ pc[p] = "migrate_validate"
    /\ pc'[p] # "migrate_validate"
    /\ \/ file.st # "ok"
       \/ validate_migration(file.data, Len(local[p].loaded.jobs)) # "ok"

\* C21: when the validation of a migration run fails, the run ends with the
\* exception (it raises, and the exception leaves main), and neither the
\* failing validation nor the way out of main writes the store or the
\* backup: the store keeps what the transform wrote, the backup is not
\* copied back.
C21_FailedValidationLeavesStore ==
    [][\A p \in Procs :
          /\ ValidationFails(p) =>
                pc'[p] = "raised" /\ file' = file /\ backup' = backup
          /\ (pc[p] = "raised" /\ op[p].name = "migrate" /\ pc'[p] # "raised") =>
                pc'[p] = "idle" /\ file' = file /\ backup' = backup]_vars

\* A run whose validation has failed: the store holds the transformed
\* document, which is not the backup
C21_Witness ==
    \E p \in Procs :
        /\ pc[p] = "raised"
        /\ op[p].name = "migrate"
        /\ file = Written(local[p].tracker_data)
        /\ validate_migration(file.data, Len(local[p].loaded.jobs)) # "ok"
        /\ backup.st = "ok"
        /\ backup # file

\* The step in which validate_migration, called by the run of process p,
\* returns without raising
ValidationPasses(p) == pc[p] = "migrate_validate" /\ pc'[p] = "idle"

\* C22: validate_migration succeeds only if the store holds as many records
\* as the run loaded before it transformed them and every record of the
\* migrated store with status 'interviewing' has an interview_stage among
\* recruiter_screen, hiring_manager, panel_onsite.
C22_ValidationChecksEveryStage ==
    [][\A p \in Procs :
          ValidationPasses(p) =>
              /\ Len(file.data.jobs) = Len(local[p].loaded.jobs)
              /\ \A i \in DOMAIN file.data.jobs :
                    file.data.jobs[i].status = "interviewing" =>
                        /\ "interview_stage" \in DOMAIN file.data.jobs[i]
                        /\ file.data.jobs[i].interview_stage \in LegacyStages]_vars

\* The step in which a run of strict verification has loaded a store with
\* pending records and scanned the inbox
StrictScan(p) ==
    /\ pc[p] = "idle"
    /\ op'[p].name = "verify_applications"
    /\ file.st = "ok"
    /\ \E i \in DOMAIN file.data.jobs : is_pending(file.data.jobs[i])
    /\ local'[p].api = "ok"

\* An email of the scan is from the company of the record (or names it in
\* its subject) and was not received before the record was submitted; a
\* record whose submission time is unknown is matched against every email
HasMatchingEmail(job, emails) ==
    \E i \in DOMAIN emails :
        LET submitted_at == get_field(job, "submitted_at", NoStamp)
        IN  /\ emails[i].received_at.parsed
            /\ submitted_at.parsed => emails[i].received_at.t >= submitted_at.t
            /\ company_in_email(company_key(get_field(job, "company", <<>>)), emails[i])

RECURSIVE StrictlyVerified(_, _)
StrictlyVerified(jobs, emails) ==
    IF jobs = <<>> THEN <<>>
    ELSE LET job  == Head(jobs)
             rest == StrictlyVerified(Tail(jobs), emails)
         IN  IF ~is_pending(job) THEN <<job>> \o rest
             ELSE IF HasMatchingEmail(job, emails)
             THEN <<set_field(set_field(job, "status", "applied"),
                              "email_verified", TRUE)>> \o rest
             ELSE rest

\* C23: one run of strict verification goes on to write the store in which
\* exactly the pending_verification records with no matching email in the
\* scanned inbox are gone, every pending_verification record with a
\* matching email has status 'applied' and email_verified true, and every
\* other record is as it was.
C23_StrictVerification ==
    [][\A p \in Procs :
          StrictScan(p) =>
              /\ pc'[p] = "verify_save"
              /\ local'[p].tracker_data =
                    [file.data EXCEPT !.jobs = StrictlyVerified(file.data.jobs, local'[p].feed)]]_vars

\* C24: the synchronous email wait makes at most timeout_seconds //
\* poll_interval checks of the inbox and sleeps no longer than
\* timeout_seconds in all, every call of it ends, and it ends by returning
\* the email that matches or None: the only exception that leaves it is the
\* failure to read the API key, never the timeout.
C24_WaitTerminates ==
    /\ [](wait.at # "main" =>
            /\ wait.attempts <= wait.timeout_seconds \div wait.poll_interval
            /\ wait.slept <= wait.timeout_seconds)
    /\ [](wait.at = "returned" =>
            \/ wait.result = <<>> /\ wait.attempts = wait.max_attempts
            \/ /\ Len(wait.result) = 1
               /\ wait.result[1] \in Emails
               /\ wait_match(company_key(wait.company), wait.result[1]))
    /\ [](wait.at = "raised" => wait.api = "no_key")
    /\ (wait.at = "loop") ~> (wait.at \in {"returned", "raised"})

\* A call that has checked the inbox more than once, found no match and
\* returned None
C24_Witness ==
    /\ wait.at = "returned"
    /\ wait.result = <<>>
    /\ wait.attempts = wait.max_attempts
    /\ wait.attempts >= 2
    /\ wait.slept > 0

\* C25: a store write that fails inside a task operation is surfaced to the
\* caller: when save_tracker has returned False, complete_task has not
\* returned True and create_active_task has not handed back a task id.
C25_FailedWriteSurfaced ==
    \A p \in Procs : retval[p].saved = "False" => retval[p].value = NoneStr

OwnedTaskFields(call) ==
    CASE call.name = "update_task_progress" -> {"current_step", "progress", "updated_at"}
      [] call.name = "update_task_cost" ->
            {"cost", "input_tokens", "output_tokens", "updated_at"}
      [] call.name \in {"error_task", "cancel_task", "api_cancel_task"} ->
            {"status", "error_message", "updated_at"}
      [] OTHER -> {}

\* The fields of a record the migration is there to write
MigrationFields == {"status", "interview_stage"} \cup NewFields

\* Every field of record old outside owned is in record new with its value
SameOutside(old, new, owned) ==
    \A f \in (DOMAIN old) \ owned : f \in DOMAIN new /\ new[f] = old[f]

\* Document new is document old but for what the operation call owns: its
\* own task (the fields it writes, or the whole task when it creates or
\* deletes it), the record complete_task inserts, and the fields of the
\* records the migration writes
Framed(call, old, new) ==
    /\ new.settings.followUpDays = old.settings.followUpDays
    /\ new.settings.last_email_sync = old.settings.last_email_sync
    /\ \A t \in DOMAIN active_tasks(old) :
          IF call.name # "migrate" /\ t = call.task_id
          THEN \/ call.name \in {"remove_task", "api_remove_task", "complete_task",
                                 "create_active_task"}
               \/ /\ t \in DOMAIN active_tasks(new)
                  /\ SameOutside(active_tasks(old)[t], active_tasks(new)[t],
                                 OwnedTaskFields(call))
          ELSE t \in DOMAIN active_tasks(new) /\ active_tasks(new)[t] = active_tasks(old)[t]
    /\ CASE call.name = "migrate" ->
               /\ Len(new.jobs) = Len(old.jobs)
               /\ \A i \in DOMAIN old.jobs :
                     SameOutside(old.jobs[i], new.jobs[i], MigrationFields)
         [] call.name = "complete_task" ->
               new.jobs = old.jobs \/ (new.jobs # <<>> /\ Tail(new.jobs) = old.jobs)
         [] OTHER -> new.jobs = old.jobs

C28_GlobexVerifiedOnce ==
    ( /\ \A p \in Procs : pc[p] = "idle"
      /\ prev_pass.ran
      /\ ThreadGlobex \in Range(prev_pass.feed)
      /\ file.st = "ok"
      /\ \E i \in DOMAIN file.data.jobs :
            file.data.jobs[i].jobUrl = ApplicationGlobex.job_url )
    => /\ Len(file.data.jobs) = 1
       /\ file.data.jobs[1].status = "applied"
       /\ file.data.jobs[1].email_verified

\* The store holds a record for the confirmation thread t
HasRecord(t) ==
    /\ file.st = "ok"
    /\ \E i \in DOMAIN file.data.jobs :
          same_job(file.data.jobs[i], Derived[t].company, Derived[t].role)

\* C29: no confirmation is lost by a pass that dies, or whose store write
\* fails, between its write of the sync state and its write of the store:
\* whenever a later pass has listed the inbox and run to its end, every
\* confirmation thread it listed whose id is in processed_threads has its
\* JobRecord in the store.
C29_ProcessedThreadsHaveRecords ==
    ( /\ \A p \in Procs : pc[p] = "idle"
      /\ prev_pass.ran
      /\ sync_file.st = "ok" )
    => \A t \in Threads \cap Range(prev_pass.feed) :
          (t.thread_id \in sync_file.data.processed_threads /\ Derived[t].is_confirmation)
              => HasRecord(t)

\* C30: after a reconciliation pass that processed at least one new thread
\* (it wrote the sync-state file, whose last_sync is the time of this pass),
\* settings.last_email_sync of the store equals that last_sync
C30_StoreCarriesLastSync ==
    ( /\ \A p \in Procs : pc[p] = "idle"
      /\ prev_pass.ran
      /\ sync_file.st = "ok"
      /\ sync_file.data.last_sync = now )
    => /\ file.st = "ok"
       /\ file.data.settings.last_email_sync = sync_file.data.last_sync


\* C31: when the fetch of the mail fails during strict verification (the
\* request fails or the API key cannot be read), what verify_applications
\* writes, if it writes, is the store as it loaded it: no
\* pending_verification record is removed after a scan that did not succeed.
C31_FailedFetchLeavesStore ==
    [][\A p \in Procs :
          (pc[p] = "verify_write" /\ local[p].api # "ok")
              => file' = Written(local[p].loaded)]_vars


\* C32: email_verified is monotonic: a record that the store holds with
\* email_verified true is never held with email_verified false after a later
\* write of the store, a run of the schema migration included.
C32_EmailVerifiedMonotonic ==
    [][\A i \in DOMAIN committed.jobs : \A k \in DOMAIN committed'.jobs :
          ( /\ get_field(committed.jobs[i], "email_verified", FALSE)
            /\ committed'.jobs[k].id = committed.jobs[i].id )
              => get_field(committed'.jobs[k], "email_verified", FALSE)]_vars


\* C33: complete_task called with a job_url that is None or empty, for a
\* task that no stored record comes from, never takes a stored record for a
\* URL match: it goes on to save a store with one record more than it
\* loaded, the record of this application.
C33_NoUrlNeverMatches ==
    [][\A p \in Procs :
          ( /\ pc[p] = "idle"
            /\ pc'[p] = "save"
            /\ op'[p].name = "complete_task"
            /\ op'[p].application.job_url \in {NoneStr, ""}
            /\ \A i \in DOMAIN load_tracker(file).jobs :
                  load_tracker(file).jobs[i].browser_use_task_id # op'[p].task_id )
              => /\ Len(local'[p].tracker_data.jobs) = Len(load_tracker(file).jobs) + 1
                 /\ local'[p].tracker_data.jobs[1].browser_use_task_id = op'[p].task_id]_vars


\* The number of places where the verification note of date is in notes
Appended(notes, date) ==
    Cardinality({i \in 1..Len(notes) :
        StartsAt(notes, i, <<"(check mark) Email confirmation received on ">> \o date)})

\* C34: notes is append-only under reconciliation: when a pass updates a
\* record, the notes the record had are the start of the notes it has, and
\* the verification note of one confirmation date is in them once at most.
C34_NotesAppendOnly ==
    [][\A p \in Procs :
          ( /\ pc[p] = "sync_loop"
            /\ pc'[p] = "sync_loop"
            /\ local'[p].result = "updated"
            /\ Len(local'[p].new_threads) > Len(local[p].new_threads) )
              => \A i \in DOMAIN local[p].tracker_data.jobs :
                    LET old == get_field(local[p].tracker_data.jobs[i], "notes", <<>>)
                        new == get_field(local'[p].tracker_data.jobs[i], "notes", <<>>)
                    IN  /\ Len(new) >= Len(old)
                        /\ SubSeq(new, 1, Len(old)) = old
                        /\ Appended(new, date_of(Head(local[p].threads).timestamp)) <= 1]_vars


\* The subject and the preview of thread t hold none of the confirmation
\* phrases
NoPhrase(t) ==
    \A phrase \in ConfirmationPhrases :
        /\ ~contains(phrase, lower(t.subject) \o <<" ">> \o lower(t.preview))

C36_SyncStatusSettled ==
    ( /\ pc[Server] = "idle"
      /\ retval[Server].value \in {"200", "500", "504"}
      /\ file.st = "ok" )
    => get_field(file.data.settings, "email_sync_status", NoneStr) # "syncing"


\* The store holds a record of the application to job_url
HasJobRecord(job_url) ==
    /\ file.st = "ok"
    /\ \E i \in DOMAIN file.data.jobs :
            get_field(file.data.jobs[i], "jobUrl", <<>>) = job_url

\* C37: get_next_pending_job never returns a URL that has a JobRecord in
\* the store (as complete_task writes it) nor a URL that is in the active
\* jobs, and it returns None only when every pending URL is applied or active.
C37_NextPendingIsNew ==
    [][\A p \in Procs :
          (pc[p] = "idle" /\ pc'[p] = "returning" /\ op'[p].name = "get_next_pending_job")
              => LET active_jobs == load_active_jobs(active_jobs_file)
                     pending == get_pending_jobs(pending_jobs_file)
                 IN  IF next_job' = <<>>
                     THEN \A i \in DOMAIN pending :
                             HasJobRecord(pending[i]) \/ pending[i] \in DOMAIN active_jobs
                     ELSE /\ next_job'[1] \in Range(pending)
                          /\ ~HasJobRecord(next_job'[1])
                          /\ next_job'[1] \notin DOMAIN active_jobs]_vars

\* C38: start_job_application(u) removes the pending entry u and no other
\* line of pending_jobs.txt, and adds u to the active jobs with status
\* 'running', the other active jobs staying as they are;
\* complete_job_application(u, success) then removes u from the active jobs
\* when success is true and keeps it with status 'failed' when it is false,
\* and leaves pending_jobs.txt alone.
C38_StartRemovesOneEntry ==
    [][\A p \in Procs :
          (pc[p] = "idle" /\ pc'[p] = "returning")
              => LET u == op'[p].job_url
                     before == load_active_jobs(active_jobs_file)
                     after  == load_active_jobs(active_jobs_file')
                 IN  /\ op'[p].name = "start_job_application"
                            => /\ pending_jobs_file'.lines =
                                    SelectSeq(pending_jobs_file.lines,
                                              LAMBDA line : strip(line) # u)
                               /\ DOMAIN after = (DOMAIN before) \cup {u}
                               /\ after[u].status = "running"
                               /\ \A v \in (DOMAIN before) \ {u} : after[v] = before[v]
                     /\ op'[p].name = "complete_job_application"
                            => /\ pending_jobs_file' = pending_jobs_file
                               /\ \A v \in (DOMAIN before) \ {u} :
                                      v \in DOMAIN after /\ after[v] = before[v]
                               /\ op'[p].success => u \notin DOMAIN after
                               /\ (~op'[p].success /\ u \in DOMAIN before)
                                      => u \in DOMAIN after /\ after[u].status = "failed"]_vars

====
